---- MODULE Spec2Model ----
(***************************************************************************)
(* Verification model of parts of the replication engine:                  *)
(*   - gcache::MemStore, the bounded in-memory buffer store                *)
(*     (src/unnamed/part_000, the header gcache_mem_store.hpp);            *)
(*   - the gcomm backend of GCS: the event queue shared by the I/O thread  *)
(*     (handle_up) and the receiver (gcs_gcomm_recv)                       *)
(*     (src/gcs/src/gcs_gcomm.cpp);                                        *)
(*   - the fixed-size FIFO of GCS: creation, close and destruction         *)
(*     (src/gcs/src/gcs_fifo_lite.c).                                      *)
(* Each part has its own specification; the variables of the other parts   *)
(* stay at their initial values.                                           *)
(***************************************************************************)
EXTENDS Integers, Sequences, FiniteSets, TLC

(***************************************************************************)
(* Bounds of the model.                                                    *)
(***************************************************************************)
\* number of distinct heap blocks the system allocator can hand out
MaxBufs == 2
\* largest size passed to malloc / realloc
MaxSize == 2
\* largest global seqno assigned to a buffer
MaxSeqno == 2
\* the value passed to set_max_size
NewMaxSize == 1

\* number of handle_up calls the I/O thread makes
MaxUp == 3
\* largest payload handed to handle_up, in bytes
MaxMsgLen == 2
\* number of distinct buffers the receiver passes to gcs_gcomm_recv
MaxRecvBufs == 2
\* size of the large buffer passed to gcs_gcomm_recv (the small one is 1)
MaxRecvLen == 3
\* number of nodes that can be members of a view
MaxNodes == 2

\* width, in bits, of size_t and unsigned long in the FIFO model
WordBits == 4
\* largest length the FIFO of the concurrent model is created with
MaxFifoLen == 2
\* the longest buffer handed to gcs_gcomm_send
MaxSendLen == 2
\* the longest buffer handed to async_write
MaxWriteLen == 2
\* the most calls of async_write
MaxWriteCalls == 3
\* the most calls of the engine's client_handshake
MaxHandshakes == 3
\* the most calls of the engine's write
MaxEngineWrites == 3
\* the most bytes the peer has written to the socket that are not yet read
MaxPeerBytes == 1
\* the most events in the event queue, in the model of its mutex
MaxQueued == 4
\* the most handle_up calls, in the model of the copies of events
MaxEvUps == 3
\* the longest buffer handed to async_read
MaxReadLen == 2
\* the most calls of async_read
MaxReadCalls == 2
\* the most calls of the engine's read
MaxEngineReads == 3

(***************************************************************************)
(* MemStore: constants                                                     *)
(***************************************************************************)
\* the value the store is constructed with (constructor argument max_size)
InitMaxSize == 3
SEQNO_NONE == 0
SEQNO_MAX == 2147483647
BUFFER_IN_MEM == "BUFFER_IN_MEM"
BUFFER_RELEASED == 1
\* reinterpret_cast<BH_ctx_t>(this): the identity of the owning store
ThisStore == "MemStore"
\* distance, in headers, between a header and its payload: (bh + 1)
BH_size == 1

\* header addresses the system allocator can return; payloads sit at +BH_size
HdrAddrs == {2 * i : i \in 1..MaxBufs}
NULL == 0

\* the contents of memory that is not allocated (never read by the code)
NoHdr == [size |-> 0, seqno_g |-> -1, flags |-> BUFFER_RELEASED,
          store |-> "none", ctx |-> "none"]

VARIABLES
    max_size_,       \* MemStore::max_size_
    size_,           \* MemStore::size_
    allocd_,         \* MemStore::allocd_ : set of header addresses
    seqno_locked_,   \* MemStore::seqno_locked_
    seqno2ptr_,      \* the shared seqno -> payload pointer index
    heap,            \* header address -> BufferHeader stored there
    payload,         \* header address -> contents of the payload after it
    m_aborted,       \* an assert() of the store has failed
    max_size_set,    \* set_max_size has been called since construction
    m_last,          \* the last call made on the store and what it returned
    m_free           \* the buffer as the last free() found it, while only
                     \* repossess() of the same buffer has followed

mvars == <<max_size_, size_, allocd_, seqno_locked_, seqno2ptr_, heap,
           payload, m_aborted, max_size_set, m_last, m_free>>

(***************************************************************************)
(* The gcomm backend: constants                                            *)
(***************************************************************************)
ENOTCONN == 107
\* the message type recv reports for a component (view) message
GCS_MSG_COMPONENT == 3
V_PRIM == "V_PRIM"
V_NON_PRIM == "V_NON_PRIM"
\* UUID(): the nil UUID of a default-constructed ProtoUpMeta
NilUUID == 0
\* the user type of a default-constructed ProtoUpMeta
NoUserType == 255
UUIDs == 1..MaxNodes
\* conn->vs_ctx.vs->get_uuid(): the UUID of this node, the last one in the
\* order of UUIDs
SelfUUID == MaxNodes
\* the user types payloads are sent with
UserTypes == {1, 2}
\* sizeof(gcs_comp_msg_t) and the size of one member entry, in model bytes
CompHdrSize == 1
CompMembSize == 1

RecvBufs == 1..MaxRecvBufs
RecvLens == {1, MaxRecvLen}

\* null pointers of the types an event holds
NoRb == [len |-> 0, data |-> 0]
NoView == [type |-> "none", members |-> <<>>]
\* the ProtoUpMeta an event is built with when um_ is null
NoUm == [source |-> NilUUID, user_type |-> NoUserType, view |-> NoView]
NoComp == [primary |-> FALSE, my_idx |-> -1, memb_num |-> -1, memb |-> <<>>]
\* the bytes of a buffer nothing has been copied into
NoBytes == [kind |-> "none", data |-> 0, n |-> 0]

\* NodeList: the members of a view, ordered by UUID; every view a node is
\* handed contains the node itself, the empty (leave) view excepted
MemberLists ==
    {<<>>} \cup {[i \in 1..(MaxNodes - k + 1) |-> k + i - 1] : k \in 1..MaxNodes}

Views == [type : {V_PRIM, V_NON_PRIM}, members : MemberLists]

\* View::is_empty
is_empty(view) == view.members = <<>>

Range(f) == {f[i] : i \in DOMAIN f}

VARIABLES
    eq,              \* gcs_gcomm::eq : the queue of vs_ev, head first
    waiter_buf,      \* gcs_gcomm::waiter_buf : a receive buffer, or NULL
    waiter_buf_len,  \* gcs_gcomm::waiter_buf_len
    interrupted,     \* EventLoop::is_interrupted()
    terminate,       \* gcs_backend_conn::terminate
    comp_map,        \* gcs_backend_conn::comp_map : UUID -> member index
    comp_msg,        \* gcs_backend_conn::comp_msg
    n_received,      \* gcs_backend_conn::n_received
    n_copied,        \* gcs_backend_conn::n_copied
    bufs,            \* the receiver's buffers: what was last copied into each
    io_pc,           \* where the I/O thread (conn_run) is
    io_um,           \* the metadata of the handle_up call in progress
    r_pc,            \* where the receiver (gcs_gcomm_recv) is
    r_buf,           \* buf argument of the recv call in progress
    r_len,           \* len argument of the recv call in progress
    g_aborted,       \* an assert() of the backend has failed
    n_up,            \* number of handle_up calls made so far
    up_view,         \* the view last handed to handle_up
    received,        \* per event recv has released: the handle_up call it is of
    g_last,          \* the last return of gcs_gcomm_recv
    c_pc,            \* where the call of gcs_gcomm_close is
    c_ret,           \* what gcs_gcomm_close returned
    polls_since_term,\* polls conn_run has come out of since terminate was set
    vs_closes,       \* number of times conn_run has closed the transport
    poll_err         \* what the last poll of conn_run returned

gvars == <<eq, waiter_buf, waiter_buf_len, interrupted, terminate, comp_map,
           comp_msg, n_received, n_copied, bufs, io_pc, io_um, r_pc, r_buf,
           r_len, g_aborted, n_up, up_view, received, g_last, c_pc, c_ret,
           polls_since_term, vs_closes, poll_err>>

\* the state of the threads around the event queue: close and conn_run
tvars == <<c_pc, c_ret, polls_since_term, vs_closes, poll_err>>

(***************************************************************************)
(* The FIFO: constants                                                     *)
(***************************************************************************)
\* 2^n
RECURSIVE Pow2(_)
Pow2(n) == IF n = 0 THEN 1 ELSE 2 * Pow2(n - 1)

\* the largest unsigned long and the largest long of the platform
GU_ULONG_MAX == Pow2(WordBits) - 1
GU_LONG_MAX == Pow2(WordBits - 1) - 1

EALREADY == 114
EINVAL == 22
EBUSY == 16

\* a null gcs_fifo_lite_t*
NoFifo == [item_size |-> 0, length |-> 0, mask |-> 0, queue |-> <<>>,
           queue_bytes |-> 0, head |-> 0, tail |-> 0, used |-> 0,
           closed |-> FALSE, destroyed |-> FALSE, put_wait |-> 0,
           get_wait |-> 0, null |-> TRUE]

\* the threads that use the FIFO
Producers == {"p1", "p2"}
Consumers == {"c1"}
Closers == {"x1"}
Destroyers == {"d1", "d2"}
Threads == Producers \cup Consumers \cup Closers \cup Destroyers
NoThread == "none"

VARIABLES
    create_args,     \* arguments of gcs_fifo_lite_create: length, item_size
    create_pc,       \* where the call of gcs_fifo_lite_create is
    fifo,            \* the gcs_fifo_lite_t the call returned, or NoFifo
    lock,            \* fifo->lock: the thread holding it and whether it
                     \* has been destroyed
    put_cond,        \* fifo->put_cond: the threads blocked on it
    get_cond,        \* fifo->get_cond: the threads blocked on it
    f_pc,            \* per thread: where it is in its FIFO call
    f_ret,           \* per thread: what its last FIFO call returned
    f_freed,         \* how many times gu_free (f) has been called
    f_aborted        \* abort() has been called

fvars == <<create_args, create_pc, fifo, lock, put_cond, get_cond, f_pc,
           f_ret, f_freed, f_aborted>>

(***************************************************************************)
(* The gcomm backend, its life cycle and gcs_gcomm_send: constants         *)
(***************************************************************************)
EBADFD == 77
ENOMEM == 12
EAGAIN == 11
\* the error codes pass_down returns
PassDownErrs == {EAGAIN, ENOTCONN}
\* the message types gcs_gcomm_send is called with
SendMsgTypes == {-1, 0, 1, 254, 255, 256}

VARIABLES
    b_conn,          \* backend->conn: "null" or "live"
    b_vs,            \* conn->vs_ctx.vs: "null", "live" or "deleted" (the
                     \* pointer is kept after delete)
    b_ret,           \* what the last create, open, close or destroy returned
    s_last,          \* the last call of gcs_gcomm_send: arguments, result
    s_down,          \* the pass_down calls the last gcs_gcomm_send made
    s_crashed        \* the process has crashed on the deleted transport

svars == <<b_conn, b_vs, b_ret, s_last, s_down, s_crashed>>

(***************************************************************************)
(* The reactor socket and its stream engine: constants                     *)
(***************************************************************************)
EPIPE == 32
\* gu::AsioStreamEngine::op_status
OpStatus == {"success", "want_read", "want_write", "eof", "error"}
\* gu::AsioErrorCode: no error, end of file, an error of the engine
NoError == [value |-> 0, is_eof |-> FALSE]
EofError == [value |-> 2, is_eof |-> TRUE]
EngineError(e) == [value |-> e, is_eof |-> FALSE]

VARIABLES
    a_role,          \* the socket is the connecting one ("client") or the
                     \* one the acceptor made ("accepted")
    a_engine,        \* the socket's MockStreamEngine
    a_handler,       \* the socket's MockSocketHandler
    a_sock,          \* the socket: state, what its handshake waits for
    a_wctx,          \* the socket's write context and what the write waits for
    a_rcv,           \* bytes the peer has written that the socket has not read
    a_peer_closed,   \* the peer has closed its socket
    a_rctx,          \* the socket's read context and what the read waits for
    a_call,          \* the last call of async_write: number, length, errno
    a_acc,           \* accepted calls of async_write: how many, last length
    a_hs,            \* the results the handshake has returned, in order
    a_reads          \* async_read: how many calls, bytes read by the last

avars == <<a_role, a_engine, a_handler, a_sock, a_wctx, a_rcv, a_peer_closed,
           a_rctx, a_call, a_acc, a_hs, a_reads>>

\* ---- the reactor (gu::AsioIoService) and its run_one ----
VARIABLES
    io_service       \* the reactor: each operation's state, the queue of
                     \* completions, and the calls of run_one

\* ---- the event queue of gcs_gcomm and its mutex, line by line ----
VARIABLES
    eq_sync          \* gcs_gcomm::mutex (its holder), eq.size(), the line
                     \* the I/O thread is at in handle_up and the line the
                     \* receiver is at in wait_event or release_event

\* ---- the copies made of queued events (vs_ev) and their deletion ----
VARIABLES
    ev_heap          \* per queued vs_ev the ReadBuf copy and the View copy
                     \* it points to, each with the number of times it was
                     \* freed, and the copies whose vs_ev is gone

\* the variables each part of the model leaves alone
OutsideMemStore == <<gvars, fvars, svars, avars, io_service, eq_sync, ev_heap>>
OutsideGcomm == <<mvars, fvars, svars, avars, io_service, eq_sync, ev_heap>>
\* what handle_up and gcs_gcomm_recv leave alone
OutsideEvents == <<OutsideGcomm, tvars>>
OutsideFifo == <<mvars, gvars, svars, avars, io_service, eq_sync, ev_heap>>
OutsideSend == <<mvars, gvars, fvars, avars, io_service, eq_sync, ev_heap>>
OutsideAsio == <<mvars, gvars, fvars, svars, io_service, eq_sync, ev_heap>>
OutsideReactor == <<mvars, gvars, fvars, svars, avars, eq_sync, ev_heap>>
OutsideEqSync == <<mvars, gvars, fvars, svars, avars, io_service, ev_heap>>
OutsideEvHeap == <<mvars, gvars, fvars, svars, avars, io_service, eq_sync>>
\* what connecting, the handshake and writing leave alone
OutsideWrite == <<OutsideAsio, a_role, a_peer_closed, a_rctx, a_reads>>
\* what reading leaves alone
OutsideRead == <<OutsideAsio, a_role, a_wctx, a_call, a_acc, a_hs>>

(***************************************************************************)
(* MemStore: helpers                                                       *)
(***************************************************************************)
\* pointer conversions: (bh + 1) and ptr2BH(ptr)
BH2ptr(bh) == bh + BH_size
ptr2BH(ptr) == ptr - BH_size

BH_is_released(h) == (h.flags % 2) = BUFFER_RELEASED

\* a call record: the operation, its arguments, the value returned, and the
\* header of the buffer argument and size_ as they were when the call was made
Call(op, bh, size, ret) ==
    [op |-> op, bh |-> bh, size |-> size, ret |-> ret,
     hdr |-> IF bh = NULL THEN NoHdr ELSE heap[bh],
     size_ |-> IF op \in {"malloc", "realloc", "discard"} THEN size_ ELSE 0]

NoFree == [bh |-> NULL]

\* the buffer and the store's counter as free(bh) finds them
FreeRecord(bh) ==
    [bh |-> bh, hdr |-> heap[bh], payload |-> payload[bh], size_ |-> size_]

NextFree(op, bh) ==
    IF op = "free" THEN FreeRecord(bh)
    ELSE IF op = "repossess" /\ m_free.bh = bh THEN m_free
    ELSE NoFree

\* MemStore::MemStore
MInit ==
    /\ max_size_ = InitMaxSize
    /\ size_ = 0
    /\ allocd_ = {}
    /\ seqno_locked_ = SEQNO_MAX
    /\ seqno2ptr_ = <<>>
    /\ heap = [a \in HdrAddrs |-> NoHdr]
    /\ payload = [a \in HdrAddrs |-> 0]
    /\ m_aborted = FALSE
    /\ max_size_set = FALSE
    /\ m_last = [op |-> "new", bh |-> NULL, size |-> 0, ret |-> NULL,
                 hdr |-> NoHdr, size_ |-> 0]
    /\ m_free = NoFree

\* MemStore::have_free_space (declared in the header, defined elsewhere)
have_free_space(size) == size_ + size <= max_size_

\* the frame of a call that changes nothing but the call record
MemUnchanged ==
    UNCHANGED <<max_size_, size_, allocd_, seqno_locked_, seqno2ptr_, heap,
                payload, max_size_set>>

\* a failed assert(): the process aborts inside the call
AssertFails(op, bh, size) ==
    /\ m_aborted' = TRUE
    /\ m_last' = Call(op, bh, size, NULL)
    /\ m_free' = NextFree(op, bh)
    /\ UNCHANGED OutsideMemStore
    /\ MemUnchanged

Returns(op, bh, size, ret) ==
    /\ m_aborted' = FALSE
    /\ m_last' = Call(op, bh, size, ret)
    /\ m_free' = NextFree(op, bh)
    /\ UNCHANGED OutsideMemStore


(***************************************************************************)
(* MemStore: the operations                                                *)
(***************************************************************************)

\* the blocks ::malloc can hand out (none when the heap is exhausted): blocks
\* are interchangeable, the first free one stands for any of them
sys_malloc == {a \in HdrAddrs \ allocd_ :
                 \A b \in HdrAddrs \ allocd_ : a <= b}

\* what ::free(bh) leaves behind: the block is no longer the program's
sys_free(h, bh) == [h EXCEPT ![bh] = NoHdr]

\* discard without the seqno_locked_ assert
discard_asserts_unlocked(bh) == BH_is_released(heap[bh])

\* discard with the seqno_locked_ assert off by one
discard_asserts_le(bh) ==
    /\ BH_is_released(heap[bh])
    /\ heap[bh].seqno_g <= seqno_locked_

\* MemStore::discard, the asserts
discard_asserts(bh) ==
    /\ BH_is_released(heap[bh])
    /\ heap[bh].seqno_g < seqno_locked_

\* MemStore::discard, the statements after the asserts
discard_body(bh) ==
    /\ size_' = size_ - heap[bh].size
    /\ allocd_' = allocd_ \ {bh}
    /\ heap' = sys_free(heap, bh)
    /\ payload' = [payload EXCEPT ![bh] = 0]
    /\ UNCHANGED <<max_size_, seqno_locked_, seqno2ptr_, max_size_set>>

\* MemStore::discard, called as (part of) the call op
discard(op, bh, size) ==
    IF discard_asserts(bh)
    THEN discard_body(bh) /\ Returns(op, bh, size, NULL)
    ELSE AssertFails(op, bh, size)

\* MemStore::free, the asserts
free_asserts(bh) ==
    /\ heap[bh].size > 0
    /\ heap[bh].size <= size_
    /\ heap[bh].store = BUFFER_IN_MEM
    /\ heap[bh].ctx = ThisStore

\* free that hands every buffer to discard
free_discards_any(bh) == TRUE

\* MemStore::free: which buffers it hands to discard
free_discards(bh) == heap[bh].seqno_g = SEQNO_NONE

\* free that takes an ordered buffer out of size_ while it keeps the buffer
free_uncounts(op, bh, size) ==
    IF ~free_asserts(bh)
    THEN AssertFails(op, bh, size)
    ELSE IF free_discards(bh)
         THEN discard(op, bh, size)
         ELSE /\ size_' = size_ - heap[bh].size
              /\ UNCHANGED <<max_size_, allocd_, seqno_locked_, seqno2ptr_,
                             heap, payload, max_size_set>>
              /\ Returns(op, bh, size, NULL)

\* MemStore::free, called as (part of) the call op
free(op, bh, size) ==
    IF ~free_asserts(bh)
    THEN AssertFails(op, bh, size)
    ELSE IF free_discards(bh)
         THEN discard(op, bh, size)
         ELSE MemUnchanged /\ Returns(op, bh, size, NULL)

\* MemStore::repossess, the asserts (the method has no other statement)
repossess_asserts(bh) ==
    /\ heap[bh].size > 0
    /\ heap[bh].seqno_g # SEQNO_NONE
    /\ heap[bh].store = BUFFER_IN_MEM
    /\ heap[bh].ctx = ThisStore
    /\ BH_is_released(heap[bh])

\* malloc that leaves the flags of the fresh block as it found them
malloc_header_noflags(size) ==
    [size |-> size, seqno_g |-> SEQNO_NONE, flags |-> NoHdr.flags,
     store |-> BUFFER_IN_MEM, ctx |-> ThisStore]

\* the header MemStore::malloc writes into a fresh block
malloc_header(size) ==
    [size |-> size, seqno_g |-> SEQNO_NONE, flags |-> 0,
     store |-> BUFFER_IN_MEM, ctx |-> ThisStore]

\* malloc that checks the request against max_size_ only
malloc_refuses_oversize(size) == size > max_size_

\* MemStore::malloc: the early return
malloc_refuses(size) == size > max_size_ \/ ~have_free_space(size)

\* MemStore::malloc: what it returns for the block ::malloc gave
malloc_result(bh) == BH2ptr(bh)

\* MemStore::malloc, called as (part of) the call op
malloc(op, size) ==
    IF malloc_refuses(size)
    THEN MemUnchanged /\ Returns(op, NULL, size, NULL)
    ELSE \/ \* ::malloc returns 0
            MemUnchanged /\ Returns(op, NULL, size, NULL)
         \/ \E bh \in sys_malloc :
               /\ allocd_' = allocd_ \cup {bh}
               /\ heap' = [heap EXCEPT ![bh] = malloc_header(size)]
               /\ size_' = size_ + size
               /\ UNCHANGED <<max_size_, seqno_locked_, seqno2ptr_, payload,
                              max_size_set>>
               /\ Returns(op, NULL, size, malloc_result(bh))

\* MemStore::realloc: the early return before ::realloc is tried
realloc_refuses(bh, size) ==
    size > max_size_ \/ ~have_free_space(size - heap[bh].size)

\* realloc that does not put the original block back
realloc_restore_lost(erased, orig) == erased

\* MemStore::realloc: the allocation set after ::realloc has failed
realloc_restore(erased, orig) == erased \cup {orig}

\* mutant: size_ follows a buffer that grows and not one that shrinks
realloc_size_grown(bh, size) ==
    IF size > heap[bh].size THEN size_ + (size - heap[bh].size) ELSE size_

\* MemStore::realloc: size_ after ::realloc has succeeded
realloc_size(bh, size) == size_ + (size - heap[bh].size)

\* MemStore::realloc with ptr # 0 and size # 0, after the assert
realloc_body(bh, size) ==
    IF realloc_refuses(bh, size)
    THEN MemUnchanged /\ Returns("realloc", bh, size, NULL)
    ELSE \/ \* ::realloc fails: the original block is untouched
            /\ allocd_' = realloc_restore(allocd_ \ {bh}, bh)
            /\ UNCHANGED <<max_size_, size_, seqno_locked_, seqno2ptr_, heap,
                           payload, max_size_set>>
            /\ Returns("realloc", bh, size, NULL)
         \/ \* ::realloc succeeds, in place or in a block elsewhere
            \E tmp \in {bh} \cup sys_malloc :
               /\ allocd_' = (allocd_ \ {bh}) \cup {tmp}
               /\ heap' = [sys_free(heap, bh) EXCEPT
                             ![tmp] = [heap[bh] EXCEPT !.size = size]]
               /\ payload' = [[payload EXCEPT ![bh] = 0] EXCEPT
                                ![tmp] = payload[bh]]
               /\ size_' = realloc_size(bh, size)
               /\ UNCHANGED <<max_size_, seqno_locked_, seqno2ptr_,
                              max_size_set>>
               /\ Returns("realloc", bh, size, BH2ptr(tmp))

\* MemStore::realloc
realloc(ptr, size) ==
    IF ptr = NULL
    THEN malloc("realloc", size)
    ELSE LET bh == ptr2BH(ptr) IN
         IF heap[bh].seqno_g # SEQNO_NONE
         THEN AssertFails("realloc", bh, size)
         ELSE IF size = 0
              THEN free("realloc", bh, size)
              ELSE realloc_body(bh, size)

\* MemStore::reset
reset ==
    /\ heap' = [a \in HdrAddrs |-> IF a \in allocd_ THEN NoHdr ELSE heap[a]]
    /\ payload' = [a \in HdrAddrs |-> IF a \in allocd_ THEN 0 ELSE payload[a]]
    /\ allocd_' = {}
    /\ size_' = 0
    /\ UNCHANGED <<max_size_, seqno_locked_, seqno2ptr_, max_size_set>>
    /\ Returns("reset", NULL, 0, NULL)

(***************************************************************************)
(* MemStore: the calls a client makes.  A client passes headers of buffers *)
(* it got from this store and has not given back.                          *)
(***************************************************************************)
Malloc == \E size \in 1..MaxSize : ~m_aborted /\ malloc("malloc", size)

Free == \E bh \in allocd_ : ~m_aborted /\ free("free", bh, 0)

Repossess ==
    \E bh \in allocd_ :
       /\ ~m_aborted
       /\ IF repossess_asserts(bh)
          THEN MemUnchanged /\ Returns("repossess", bh, 0, NULL)
          ELSE AssertFails("repossess", bh, 0)

Realloc ==
    \E ptr \in {NULL} \cup {BH2ptr(bh) : bh \in allocd_}, size \in 0..MaxSize :
       /\ ~m_aborted
       /\ ptr = NULL => size > 0
       /\ realloc(ptr, size)

Discard == \E bh \in allocd_ : ~m_aborted /\ discard("discard", bh, 0)

Reset == ~m_aborted /\ allocd_ # {} /\ reset

\* MemStore::set_max_size
SetMaxSize ==
    \E size \in {NewMaxSize} :
       /\ ~m_aborted
       /\ max_size_' = size
       /\ max_size_set' = TRUE
       /\ UNCHANGED <<size_, allocd_, seqno_locked_, seqno2ptr_, heap, payload>>
       /\ Returns("set_max_size", NULL, 0, NULL)

\* MemStore::seqno_lock
SeqnoLock ==
    \E seqno_g \in 1..MaxSeqno :
       /\ ~m_aborted
       /\ seqno_locked_' = seqno_g
       /\ UNCHANGED <<max_size_, size_, allocd_, seqno2ptr_, heap, payload,
                      max_size_set>>
       /\ Returns("seqno_lock", NULL, 0, NULL)

\* MemStore::seqno_unlock
SeqnoUnlock ==
    /\ ~m_aborted
    /\ seqno_locked_ # SEQNO_MAX
    /\ seqno_locked_' = SEQNO_MAX
    /\ UNCHANGED <<max_size_, size_, allocd_, seqno2ptr_, heap, payload,
                   max_size_set>>
    /\ Returns("seqno_unlock", NULL, 0, NULL)

(***************************************************************************)
(* What the owner of the store (the cache) does to buffers between calls.  *)
(***************************************************************************)
\* seqno_assign(buf, s): the next global seqno is stamped on the header and
\* s -> buf goes into the shared index
SeqnoAssign ==
    \E bh \in allocd_ :
       LET s == Cardinality(DOMAIN seqno2ptr_) + 1 IN
       /\ ~m_aborted
       /\ heap[bh].seqno_g = SEQNO_NONE
       /\ ~BH_is_released(heap[bh])
       /\ s <= MaxSeqno
       /\ heap' = [heap EXCEPT ![bh].seqno_g = s]
       /\ seqno2ptr_' = [k \in DOMAIN seqno2ptr_ \cup {s} |->
                           IF k = s THEN BH2ptr(bh) ELSE seqno2ptr_[k]]
       /\ UNCHANGED <<max_size_, size_, allocd_, seqno_locked_, payload,
                      max_size_set>>
       /\ Returns("seqno_assign", NULL, 0, NULL)

\* the caller of free / discard marks the header released first
BH_release ==
    \E bh \in allocd_ :
       /\ ~m_aborted
       /\ ~BH_is_released(heap[bh])
       /\ heap' = [heap EXCEPT ![bh].flags = BUFFER_RELEASED]
       /\ UNCHANGED <<max_size_, size_, allocd_, seqno_locked_, seqno2ptr_,
                      payload, max_size_set>>
       /\ Returns("BH_release", NULL, 0, NULL)

\* the caller of repossess marks the header unreleased afterwards
BH_unrelease ==
    /\ ~m_aborted
    /\ m_last.op = "repossess"
    /\ heap' = [heap EXCEPT ![m_last.bh].flags = 0]
    /\ UNCHANGED <<max_size_, size_, allocd_, seqno_locked_, seqno2ptr_,
                   payload, max_size_set>>
    /\ Returns("BH_unrelease", NULL, 0, NULL)

\* the client fills the payload of a buffer it has just been given
WritePayload ==
    \E bh \in allocd_ :
       /\ ~m_aborted
       /\ payload[bh] = 0
       /\ heap[bh].seqno_g = SEQNO_NONE
       /\ ~BH_is_released(heap[bh])
       /\ payload' = [payload EXCEPT ![bh] = heap[bh].size]
       /\ UNCHANGED <<max_size_, size_, allocd_, seqno_locked_, seqno2ptr_,
                      heap, max_size_set>>
       /\ Returns("write", NULL, 0, NULL)

MemNext ==
    \/ Malloc
    \/ Free
    \/ Repossess
    \/ Realloc
    \/ Discard
    \/ Reset
    \/ SetMaxSize
    \/ SeqnoLock
    \/ SeqnoUnlock
    \/ SeqnoAssign
    \/ BH_release
    \/ BH_unrelease
    \/ WritePayload

\* vs_ev::vs_ev: up is the number of the handle_up call that built the event
vs_ev(rb, um, ms, view, up) ==
    [rb |-> rb, um |-> um, msg_size |-> ms, view |-> view, up |-> up]

NoEv == vs_ev(NoRb, NoUm, 0, NoView, 0)

\* what recv has returned: the value, the arguments of the call, the event
\* it was about and the out-parameters
Return(ret, buf, len, ev, msg_type, sender_idx) ==
    [ret |-> ret, buf |-> buf, len |-> len, ev |-> ev,
     msg_type |-> msg_type, sender_idx |-> sender_idx]

\* gcs_gcomm::gcs_gcomm, gcs_backend_conn::gcs_backend_conn and the state
\* gcs_gcomm_open leaves: the transport is connected, conn_run is polling
GInit ==
    /\ eq = <<>>
    /\ waiter_buf = NULL
    /\ waiter_buf_len = 0
    /\ interrupted = FALSE
    /\ terminate = FALSE
    /\ comp_map = <<>>
    /\ comp_msg = NoComp
    /\ n_received = 0
    /\ n_copied = 0
    /\ bufs = [b \in RecvBufs |-> NoBytes]
    /\ io_pc = "check"
    /\ io_um = NoUm
    /\ c_pc = "idle"
    /\ c_ret = 0
    /\ polls_since_term = 0
    /\ poll_err = 0
    /\ vs_closes = 0
    /\ r_pc = "idle"
    /\ r_buf = NULL
    /\ r_len = 0
    /\ g_aborted = FALSE
    /\ n_up = 0
    /\ up_view = NoView
    /\ received = <<>>
    /\ g_last = [ret |-> 0, buf |-> NULL, len |-> 0, ev |-> NoEv,
                 msg_type |-> -1, sender_idx |-> -1]

(***************************************************************************)
(* The gcomm backend: events                                               *)
(***************************************************************************)
(***************************************************************************)
(* The I/O thread: handle_up                                               *)
(***************************************************************************)
\* deque::push_back
push_back(q, ev) == Append(q, ev)

\* memcpy of the n bytes of payload data into a receive buffer
memcpy_payload(b, buf, data, n) ==
    [b EXCEPT ![buf] = [kind |-> "payload", data |-> data, n |-> n]]

\* handle_up: whether the payload goes straight into the waiter's buffer
copies_to_waiter(rb) ==
    rb # NoRb /\ eq = <<>> /\ rb.len <= waiter_buf_len

\* handle_up from the lock at line 137 to the end, in up-call number up
handle_up_locked(rb, um, up) ==
    /\ IF copies_to_waiter(rb)
       THEN /\ bufs' = memcpy_payload(bufs, waiter_buf, rb.data, rb.len)
            /\ eq' = push_back(eq, vs_ev(NoRb, um, rb.len, NoView, up))
            /\ waiter_buf' = NULL
            /\ waiter_buf_len' = 0
       ELSE /\ eq' = push_back(eq, vs_ev(rb, um, 0, um.view, up))
            /\ UNCHANGED <<bufs, waiter_buf, waiter_buf_len>>
    /\ UNCHANGED <<terminate, comp_map, comp_msg, n_received, n_copied,
                   r_pc, r_buf, r_len, g_aborted, received, g_last>>

\* the I/O thread is inside poll and may make another up-call
CanHandleUp ==
    /\ io_pc = "poll"
    /\ ~interrupted
    /\ ~g_aborted
    /\ n_up < MaxUp

\* handle_up(rb, um) with a payload: the source is a member of the view
\* the node is in
HandleUpPayload ==
    \E source \in Range(up_view.members), user_type \in UserTypes,
       len \in 1..MaxMsgLen :
       /\ CanHandleUp
       /\ n_up' = n_up + 1
       /\ handle_up_locked([len |-> len, data |-> n_up + 1],
                           [source |-> source, user_type |-> user_type,
                            view |-> NoView], n_up + 1)
       /\ UNCHANGED <<interrupted, io_pc, io_um, up_view>>
       /\ UNCHANGED OutsideEvents

\* handle_up(0, um) with a view that has members
HandleUpView ==
    \E view \in Views :
       /\ CanHandleUp
       /\ ~is_empty(view)
       /\ n_up' = n_up + 1
       /\ up_view' = view
       /\ handle_up_locked(NoRb, [NoUm EXCEPT !.view = view], n_up + 1)
       /\ UNCHANGED <<interrupted, io_pc, io_um>>
       /\ UNCHANGED OutsideEvents

\* handle_up(0, um) with the empty view, lines 126 to 135: the view is
\* queued, the receiver signalled and the event loop interrupted
HandleUpEmptyView ==
    \E view \in Views :
       /\ CanHandleUp
       /\ is_empty(view)
       /\ n_up' = n_up + 1
       /\ up_view' = view
       /\ eq' = push_back(eq, vs_ev(NoRb, NoUm, 0, view, n_up + 1))
       /\ interrupted' = TRUE
       /\ io_pc' = "up_locked"
       /\ io_um' = [NoUm EXCEPT !.view = view]
       /\ UNCHANGED <<waiter_buf, waiter_buf_len, terminate, comp_map,
                      comp_msg, n_received, n_copied, bufs, r_pc, r_buf,
                      r_len, g_aborted, received, g_last>>
       /\ UNCHANGED OutsideEvents

\* the same call goes on, without a return, to lines 137 to 149
HandleUpEmptyViewLocked ==
    /\ io_pc = "up_locked"
    /\ handle_up_locked(NoRb, io_um, n_up)
    /\ io_pc' = "poll"
    /\ io_um' = NoUm
    /\ UNCHANGED <<interrupted, n_up, up_view>>
    /\ UNCHANGED OutsideEvents

\* mutant: the sentinel is queued and the event loop is left running
HandleUpEof_no_interrupt ==
    /\ CanHandleUp
    /\ n_up' = n_up + 1
    /\ eq' = push_back(eq, vs_ev(NoRb, NoUm, 0, NoView, n_up + 1))
    /\ UNCHANGED <<waiter_buf, waiter_buf_len, terminate, comp_map, comp_msg,
                   n_received, n_copied, bufs, io_pc, io_um, r_pc, r_buf,
                   r_len, g_aborted, up_view, received, g_last, interrupted>>
    /\ UNCHANGED OutsideEvents

\* handle_up(0, 0): the connection is broken, lines 110 to 120
HandleUpEof ==
    /\ CanHandleUp
    /\ n_up' = n_up + 1
    /\ eq' = push_back(eq, vs_ev(NoRb, NoUm, 0, NoView, n_up + 1))
    /\ interrupted' = TRUE
    /\ UNCHANGED <<waiter_buf, waiter_buf_len, terminate, comp_map, comp_msg,
                   n_received, n_copied, bufs, io_pc, io_um, r_pc, r_buf,
                   r_len, g_aborted, up_view, received, g_last>>
    /\ UNCHANGED OutsideEvents

(***************************************************************************)
(* The receiver: gcs_gcomm_recv                                            *)
(***************************************************************************)
\* gcs_comp_msg_size
gcs_comp_msg_size(comp) == CompHdrSize + comp.memb_num * CompMembSize

\* gcs_comp_msg_new(primary, my_idx, memb_num)
gcs_comp_msg_new(primary, my_idx, memb_num) ==
    [primary |-> primary, my_idx |-> my_idx, memb_num |-> memb_num,
     memb |-> [i \in 1..memb_num |-> NilUUID]]

\* gcs_comp_msg_leave
gcs_comp_msg_leave == gcs_comp_msg_new(FALSE, -1, 0)

\* mutant: my_idx is left as gcs_comp_msg_new set it
fill_comp_msg_no_idx(msg, members, self) ==
    [msg EXCEPT !.memb = members]

\* fill_comp: the member ids and my_idx of the component message
fill_comp_msg(msg, members, self) ==
    [msg EXCEPT
       !.memb = members,
       !.my_idx = IF self \in Range(members)
                  THEN (CHOOSE i \in DOMAIN members : members[i] = self) - 1
                  ELSE msg.my_idx]

\* mutant: the index is not advanced from member to member
fill_comp_map_unnumbered(members) ==
    [u \in Range(members) |-> 0]

\* fill_comp: the map it leaves in comp_map
fill_comp_map(members) ==
    [u \in Range(members) |->
       (CHOOSE i \in DOMAIN members : members[i] = u) - 1]

\* the component message recv builds for a view event
new_comp(view) ==
    fill_comp_msg(IF ~is_empty(view)
                  THEN gcs_comp_msg_new(view.type = V_PRIM, 0,
                                        Len(view.members))
                  ELSE gcs_comp_msg_leave,
                  view.members, SelfUUID)

Min(a, b) == IF a <= b THEN a ELSE b
Max(a, b) == IF a >= b THEN a ELSE b

\* release_event: the queue after pop_front
release_event(q) == Tail(q)

\* mutant: the event is released whatever the size of the buffer
recv_finish_always(ev, ret, len) ==
    /\ eq' = release_event(eq)
    /\ n_received' = n_received + 1
    /\ received' = Append(received, ev.up)

\* gcs_gcomm_recv, line 384 to the end: the event is released if it fitted
recv_finish(ev, ret, len) ==
    IF ret <= len
    THEN /\ eq' = release_event(eq)
         /\ n_received' = n_received + 1
         /\ received' = Append(received, ev.up)
    ELSE UNCHANGED <<eq, n_received, received>>

\* gcs_gcomm_recv from the return of wait_event (line 319) to its own return
recv_event(ev, buf, len) ==
    IF ev.rb = NoRb /\ ev.msg_size = 0 /\ ev.view = NoView
    THEN \* the sentinel of a broken connection
         /\ g_last' = Return(-ENOTCONN, buf, len, ev, -1, -1)
         /\ UNCHANGED <<eq, comp_map, comp_msg, n_received, n_copied, bufs,
                        g_aborted, received>>
    ELSE IF ev.rb # NoRb \/ ev.msg_size > 0
    THEN \* a payload
         IF ev.um.source \notin DOMAIN comp_map
         THEN /\ g_aborted' = TRUE
              /\ g_last' = Return(0, buf, len, ev, ev.um.user_type, -1)
              /\ UNCHANGED <<eq, comp_map, comp_msg, n_received, n_copied,
                             bufs, received>>
         ELSE LET ret == IF ev.rb # NoRb THEN ev.rb.len ELSE ev.msg_size IN
              /\ IF ev.rb # NoRb /\ ret <= len
                 THEN /\ bufs' = memcpy_payload(bufs, buf, ev.rb.data, ret)
                      /\ n_copied' = n_copied + 1
                 ELSE UNCHANGED <<bufs, n_copied>>
              /\ recv_finish(ev, ret, len)
              /\ g_last' = Return(ret, buf, len, ev, ev.um.user_type,
                                  comp_map[ev.um.source])
              /\ UNCHANGED <<comp_map, comp_msg, g_aborted>>
    ELSE \* a view
         LET comp == new_comp(ev.view)
             cpy == Min(gcs_comp_msg_size(comp), len)
             ret == Max(gcs_comp_msg_size(comp), len)
         IN  /\ comp_map' = fill_comp_map(ev.view.members)
             /\ comp_msg' = comp
             /\ bufs' = [bufs EXCEPT
                           ![buf] = [kind |-> "comp", data |-> comp, n |-> cpy]]
             /\ recv_finish(ev, ret, len)
             /\ g_last' = Return(ret, buf, len, ev, GCS_MSG_COMPONENT,
                                 g_last.sender_idx)
             /\ UNCHANGED <<n_copied, g_aborted>>

\* gcs_gcomm_recv(buf, len) up to the wait in wait_event, or, when an event
\* is queued already, to its return
RecvCall ==
    \E buf \in RecvBufs, len \in RecvLens :
       /\ r_pc = "idle"
       /\ ~g_aborted
       /\ IF terminate
          THEN /\ g_last' = Return(-ENOTCONN, NULL, 0, NoEv, -1, -1)
               /\ UNCHANGED <<eq, waiter_buf, waiter_buf_len, comp_map,
                              comp_msg, n_received, n_copied, bufs, r_pc,
                              r_buf, r_len, g_aborted, received>>
          ELSE IF eq = <<>>
          THEN /\ waiter_buf' = buf
               /\ waiter_buf_len' = len
               /\ r_pc' = "wait"
               /\ r_buf' = buf
               /\ r_len' = len
               /\ UNCHANGED <<eq, comp_map, comp_msg, n_received, n_copied,
                              bufs, g_aborted, received, g_last>>
          ELSE /\ recv_event(eq[1], buf, len)
               /\ UNCHANGED <<waiter_buf, waiter_buf_len, r_pc, r_buf, r_len>>
       /\ UNCHANGED <<interrupted, terminate, io_pc, io_um, n_up, up_view>>
       /\ UNCHANGED OutsideEvents

\* the waiting receiver finds an event at the head of the queue
RecvWake ==
    /\ r_pc = "wait"
    /\ ~g_aborted
    /\ eq # <<>>
    /\ recv_event(eq[1], r_buf, r_len)
    /\ r_pc' = "idle"
    /\ r_buf' = NULL
    /\ r_len' = 0
    /\ UNCHANGED <<waiter_buf, waiter_buf_len, interrupted, terminate, io_pc,
                   io_um, n_up, up_view>>
    /\ UNCHANGED OutsideEvents

\* gcs_gcomm_close, lines 462 to 466: terminate is set
CloseSetTerminate ==
    /\ c_pc = "idle"
    /\ ~g_aborted
    /\ terminate' = TRUE
    /\ c_pc' = "join"
    /\ UNCHANGED <<eq, waiter_buf, waiter_buf_len, interrupted, comp_map,
                   comp_msg, n_received, n_copied, bufs, io_pc, io_um, r_pc,
                   r_buf, r_len, g_aborted, n_up, up_view, received, g_last,
                   c_ret, polls_since_term, vs_closes, poll_err>>
    /\ UNCHANGED OutsideGcomm

\* gu_thread_join at line 468 returns: conn_run has returned
close_joined == io_pc = "exited"

\* gcs_gcomm_close, lines 468 to 471: the thread is joined, the transport
\* deleted, 0 returned
CloseJoin ==
    /\ c_pc = "join"
    /\ ~g_aborted
    /\ close_joined
    /\ c_pc' = "returned"
    /\ c_ret' = 0
    /\ UNCHANGED <<eq, waiter_buf, waiter_buf_len, interrupted, terminate,
                   comp_map, comp_msg, n_received, n_copied, bufs, io_pc,
                   io_um, r_pc, r_buf, r_len, g_aborted, n_up, up_view,
                   received, g_last, polls_since_term, vs_closes,
                   poll_err>>
    /\ UNCHANGED OutsideGcomm

\* mutant: the transport is closed whatever the state of the event loop
conn_run_exit_closes ==
    /\ io_pc' = "exited"
    /\ vs_closes' = vs_closes + 1

\* conn_run, lines 417 to 422: the transport is closed unless the loop was
\* interrupted, and the thread ends
conn_run_exit ==
    /\ io_pc' = "exited"
    /\ vs_closes' = IF ~interrupted THEN vs_closes + 1 ELSE vs_closes

\* mutant: the loop condition is not looked at
conn_run_check_blind ==
    /\ io_pc' = "poll"
    /\ UNCHANGED vs_closes

\* conn_run, line 401: the loop condition
conn_run_check ==
    IF terminate
    THEN conn_run_exit
    ELSE /\ io_pc' = "poll"
         /\ UNCHANGED vs_closes

\* conn_run at the head of its loop
ConnRunCheck ==
    /\ io_pc = "check"
    /\ ~g_aborted
    /\ conn_run_check
    /\ UNCHANGED <<eq, waiter_buf, waiter_buf_len, interrupted, terminate,
                   comp_map, comp_msg, n_received, n_copied, bufs, io_um,
                   r_pc, r_buf, r_len, g_aborted, n_up, up_view, received,
                   g_last, c_pc, c_ret, polls_since_term, poll_err>>
    /\ UNCHANGED OutsideGcomm

\* conn_run, lines 403 to 414: poll returns err; a failure ends the loop
\* when the event loop is interrupted and aborts the process otherwise
ConnRunPoll ==
    \E err \in {0, -1} :
       /\ io_pc = "poll"
       /\ ~g_aborted
       /\ poll_err' = err
       /\ polls_since_term' = IF terminate /\ polls_since_term < 2
                              THEN polls_since_term + 1
                              ELSE polls_since_term
       /\ IF err < 0 /\ interrupted
          THEN /\ conn_run_exit
               /\ UNCHANGED g_aborted
          ELSE IF err < 0
          THEN /\ g_aborted' = TRUE
               /\ UNCHANGED <<io_pc, vs_closes>>
          ELSE /\ io_pc' = "check"
               /\ UNCHANGED <<g_aborted, vs_closes>>
       /\ UNCHANGED <<eq, waiter_buf, waiter_buf_len, interrupted, terminate,
                      comp_map, comp_msg, n_received, n_copied, bufs, io_um,
                      r_pc, r_buf, r_len, n_up, up_view, received, g_last,
                      c_pc, c_ret>>
       /\ UNCHANGED OutsideGcomm

GcommNext ==
    \/ HandleUpPayload
    \/ HandleUpView
    \/ HandleUpEmptyView
    \/ HandleUpEmptyViewLocked
    \/ HandleUpEof
    \/ RecvCall
    \/ RecvWake
    \/ CloseSetTerminate
    \/ CloseJoin
    \/ ConnRunCheck
    \/ ConnRunPoll

vars == <<mvars, gvars, fvars, svars, avars, io_service, eq_sync, ev_heap>>

(***************************************************************************)
(* The FIFO: gcs_fifo_lite_create                                          *)
(***************************************************************************)
\* arithmetic of size_t and unsigned long
Word(n) == n % Pow2(WordBits)

\* what real_length yields when the loop of line 34 never ends
Diverges == -1

\* line 34: while (l < length) l = l << 1, from the value l
RECURSIVE real_length(_, _)
real_length(l, length) ==
    IF l >= length THEN l
    ELSE IF l = 0 THEN Diverges
    ELSE real_length(Word(2 * l), length)

\* mutant: the real length is checked against the largest unsigned long
over_limits_ulong(l, item_size) ==
    \/ l > GU_ULONG_MAX
    \/ Word(l * item_size) > GU_ULONG_MAX

\* lines 35 and 36: the limits checked on the real length
over_limits(l, item_size) ==
    \/ l > GU_LONG_MAX
    \/ Word(l * item_size) > GU_ULONG_MAX

\* lines 38 to 48: the object calloc returns, with the fields create sets
new_fifo(l, item_size) ==
    [item_size |-> item_size, length |-> l, mask |-> l - 1,
     queue |-> [i \in 1..l |-> 0], queue_bytes |-> Word(l * item_size),
     head |-> 0, tail |-> 0, used |-> 0, closed |-> FALSE,
     destroyed |-> FALSE, put_wait |-> 0, get_wait |-> 0, null |-> FALSE]

\* gcs_fifo_lite_create: the pointer it returns, NoFifo for NULL; calloc_ok
\* and malloc_ok tell whether GU_CALLOC and gu_malloc succeed
gcs_fifo_lite_create(length, item_size, calloc_ok, malloc_ok) ==
    IF length < 1 \/ item_size < 1 THEN NoFifo
    ELSE LET l == real_length(1, length) IN
         IF over_limits(l, item_size) THEN NoFifo
         ELSE IF ~calloc_ok \/ ~malloc_ok THEN NoFifo
         ELSE new_fifo(l, item_size)

\* whether a call with this length leaves the loop of line 34
create_returns(length) ==
    length < 1 \/ real_length(1, length) # Diverges

\* the arguments and the allocator outcomes of one call
CreateArgs ==
    [length : 0..GU_ULONG_MAX, item_size : 0..GU_ULONG_MAX,
     calloc_ok : BOOLEAN, malloc_ok : BOOLEAN]

\* no FIFO, no thread using one
FIdle ==
    /\ fifo = NoFifo
    /\ lock = [owner |-> NoThread, destroyed |-> FALSE]
    /\ put_cond = [waiters |-> {}, destroyed |-> FALSE]
    /\ get_cond = [waiters |-> {}, destroyed |-> FALSE]
    /\ f_pc = [t \in Threads |-> "idle"]
    /\ f_ret = [t \in Threads |-> 0]
    /\ f_freed = 0
    /\ f_aborted = FALSE

\* the FIFO part while the other parts run
FNone ==
    /\ create_args = [length |-> 0, item_size |-> 0, calloc_ok |-> TRUE,
                      malloc_ok |-> TRUE]
    /\ create_pc = "idle"
    /\ FIdle

\* a call of gcs_fifo_lite_create is about to be made
FCreateInit ==
    /\ create_args \in CreateArgs
    /\ create_pc = "idle"
    /\ FIdle

\* the call of gcs_fifo_lite_create: it returns, or stays in the loop of
\* line 34 for ever, l having wrapped to 0
FifoCreate ==
    /\ create_pc = "idle"
    /\ IF create_returns(create_args.length)
       THEN /\ fifo' = gcs_fifo_lite_create(create_args.length,
                                            create_args.item_size,
                                            create_args.calloc_ok,
                                            create_args.malloc_ok)
            /\ create_pc' = "returned"
       ELSE /\ create_pc' = "loop"
            /\ UNCHANGED fifo
    /\ UNCHANGED <<create_args, lock, put_cond, get_cond, f_pc, f_ret,
                   f_freed, f_aborted>>
    /\ UNCHANGED OutsideFifo

CreateNext == FifoCreate


(***************************************************************************)
(* The FIFO: the threads using it                                          *)
(***************************************************************************)
\* the FIFO of the concurrent model: created with a length of 1 to
\* MaxFifoLen and items of one byte, no thread inside a call
FInit ==
    /\ create_args \in [length : 1..MaxFifoLen, item_size : {1},
                        calloc_ok : {TRUE}, malloc_ok : {TRUE}]
    /\ create_pc = "returned"
    /\ fifo = gcs_fifo_lite_create(create_args.length, create_args.item_size,
                                   create_args.calloc_ok,
                                   create_args.malloc_ok)
    /\ lock = [owner |-> NoThread, destroyed |-> FALSE]
    /\ put_cond = [waiters |-> {}, destroyed |-> FALSE]
    /\ get_cond = [waiters |-> {}, destroyed |-> FALSE]
    /\ f_pc = [t \in Threads |-> "idle"]
    /\ f_ret = [t \in Threads |-> 0]
    /\ f_freed = 0
    /\ f_aborted = FALSE

\* the FIFO object has not been freed and the process is running
Live == f_freed = 0 /\ ~f_aborted

\* gu_mutex_lock can return: nobody holds the mutex
CanLock(t) == f_pc[t] \in {"lock", "relock"} /\ lock.owner = NoThread

mutex_lock(t) == [lock EXCEPT !.owner = t]
mutex_unlock == [lock EXCEPT !.owner = NoThread]

\* gu_cond_wait: the thread joins the waiters of the condition
cond_wait(cond, t) == [cond EXCEPT !.waiters = @ \cup {t}]

\* the threads that leave gu_cond_wait and go for the mutex again
Woken(pc, ws) == [t \in Threads |-> IF t \in ws THEN "relock" ELSE pc[t]]

\* gu_cond_broadcast
cond_broadcast(cond) == [cond EXCEPT !.waiters = {}]

\* gu_cond_signal: the sets of threads it can wake, one waiter if any
cond_signal(cond) ==
    IF cond.waiters = {} THEN {{}} ELSE {{w} : w \in cond.waiters}

\* a thread touches the FIFO after gu_free (f)
UseAfterFree(t) ==
    /\ f_freed > 0
    /\ ~f_aborted
    /\ f_pc[t] \in {"lock", "relock", "filling", "reading"}
    /\ f_pc' = [f_pc EXCEPT ![t] = "uaf"]
    /\ UNCHANGED <<create_args, create_pc, fifo, lock, put_cond, get_cond,
                   f_ret, f_freed, f_aborted>>
    /\ UNCHANGED OutsideFifo

\* a thread enters a call that starts by taking fifo->lock
EnterLock(t) ==
    /\ ~f_aborted
    /\ f_pc[t] = "idle"
    /\ f_pc' = [f_pc EXCEPT ![t] = "lock"]
    /\ UNCHANGED <<create_args, create_pc, fifo, lock, put_cond, get_cond,
                   f_ret, f_freed, f_aborted>>
    /\ UNCHANGED OutsideFifo

\* a producer calls gcs_fifo_lite_get_tail
PutCall ==
    \E t \in Producers :
       /\ t \in Producers
       /\ EnterLock(t)

\* gcs_fifo_lite_get_tail with the lock taken: wait while the FIFO is full
\* and open; return the tail slot, the lock held, or NULL when closed
PutGetTail ==
    \E t \in Producers :
       /\ Live
       /\ CanLock(t)
       /\ IF ~fifo.closed /\ fifo.used >= fifo.length
          THEN /\ fifo' = [fifo EXCEPT !.put_wait = @ + 1]
               /\ put_cond' = cond_wait(put_cond, t)
               /\ f_pc' = [f_pc EXCEPT ![t] = "wait"]
               /\ UNCHANGED <<lock, f_ret>>
          ELSE IF ~fifo.closed
          THEN /\ lock' = mutex_lock(t)
               /\ f_pc' = [f_pc EXCEPT ![t] = "filling"]
               /\ UNCHANGED <<fifo, put_cond, f_ret>>
          ELSE /\ f_pc' = [f_pc EXCEPT ![t] = "idle"]
               /\ f_ret' = [f_ret EXCEPT ![t] = NULL]
               /\ UNCHANGED <<fifo, lock, put_cond>>
       /\ UNCHANGED <<create_args, create_pc, get_cond, f_freed, f_aborted>>
       /\ UNCHANGED OutsideFifo

\* gcs_fifo_lite_push_tail: the item is in the slot, the tail advances, one
\* waiting consumer is signalled, the lock is released
PutPushTail ==
    \E t \in Producers : \E ws \in cond_signal(get_cond) :
       /\ Live
       /\ f_pc[t] = "filling"
       /\ fifo' = [fifo EXCEPT
                     !.queue[fifo.tail + 1] = 1,
                     !.tail = (fifo.tail + 1) % (fifo.mask + 1),
                     !.used = @ + 1,
                     !.get_wait = IF @ > 0 THEN @ - 1 ELSE @]
       /\ IF fifo.get_wait > 0
          THEN /\ get_cond' = [get_cond EXCEPT !.waiters = @ \ ws]
               /\ f_pc' = [Woken(f_pc, ws) EXCEPT ![t] = "idle"]
          ELSE /\ f_pc' = [f_pc EXCEPT ![t] = "idle"]
               /\ UNCHANGED get_cond
       /\ lock' = mutex_unlock
       /\ f_ret' = [f_ret EXCEPT ![t] = 1]
       /\ UNCHANGED <<create_args, create_pc, put_cond, f_freed, f_aborted>>
       /\ UNCHANGED OutsideFifo

\* a consumer calls gcs_fifo_lite_get_head
GetCall ==
    \E t \in Consumers :
       /\ t \in Consumers
       /\ EnterLock(t)

\* gcs_fifo_lite_get_head with the lock taken: wait while the FIFO is empty
\* and open; return the head slot, the lock held, or NULL
GetGetHead ==
    \E t \in Consumers :
       /\ Live
       /\ CanLock(t)
       /\ IF ~fifo.closed /\ fifo.used = 0
          THEN /\ fifo' = [fifo EXCEPT !.get_wait = @ + 1]
               /\ get_cond' = cond_wait(get_cond, t)
               /\ f_pc' = [f_pc EXCEPT ![t] = "wait"]
               /\ UNCHANGED <<lock, f_ret>>
          ELSE IF fifo.used > 0
          THEN /\ lock' = mutex_lock(t)
               /\ f_pc' = [f_pc EXCEPT ![t] = "reading"]
               /\ UNCHANGED <<fifo, get_cond, f_ret>>
          ELSE /\ f_pc' = [f_pc EXCEPT ![t] = "idle"]
               /\ f_ret' = [f_ret EXCEPT ![t] = NULL]
               /\ UNCHANGED <<fifo, lock, get_cond>>
       /\ UNCHANGED <<create_args, create_pc, put_cond, f_freed, f_aborted>>
       /\ UNCHANGED OutsideFifo

\* gcs_fifo_lite_pop_head: the head advances, one waiting producer is
\* signalled, the lock is released
GetPopHead ==
    \E t \in Consumers : \E ws \in cond_signal(put_cond) :
       /\ Live
       /\ f_pc[t] = "reading"
       /\ fifo' = [fifo EXCEPT
                     !.queue[fifo.head + 1] = 0,
                     !.head = (fifo.head + 1) % (fifo.mask + 1),
                     !.used = @ - 1,
                     !.put_wait = IF @ > 0 THEN @ - 1 ELSE @]
       /\ IF fifo.put_wait > 0
          THEN /\ put_cond' = [put_cond EXCEPT !.waiters = @ \ ws]
               /\ f_pc' = [Woken(f_pc, ws) EXCEPT ![t] = "idle"]
          ELSE /\ f_pc' = [f_pc EXCEPT ![t] = "idle"]
               /\ UNCHANGED put_cond
       /\ lock' = mutex_unlock
       /\ f_ret' = [f_ret EXCEPT ![t] = 1]
       /\ UNCHANGED <<create_args, create_pc, get_cond, f_freed, f_aborted>>
       /\ UNCHANGED OutsideFifo

(***************************************************************************)
(* The FIFO: gcs_fifo_lite_close                                           *)
(***************************************************************************)
\* lines 64 to 70: the fields gcs_fifo_lite_close sets
close_body(f) ==
    [f EXCEPT !.closed = TRUE, !.put_wait = 0, !.get_wait = 0]

\* mutant: get_cond is not broadcast
close_wakes_put_only == put_cond.waiters

\* lines 68 and 70: the threads the two broadcasts wake
close_wakes == put_cond.waiters \cup get_cond.waiters

\* a thread calls gcs_fifo_lite_close: gu_mutex_lock at line 61
CloseCall ==
    \E t \in Closers :
       /\ t \in Closers
       /\ EnterLock(t)

\* gcs_fifo_lite_close from the lock taken at line 61 to the unlock of
\* line 72
CloseLocked ==
    \E t \in Closers :
       /\ Live
       /\ CanLock(t)
       /\ fifo' = close_body(fifo)
       /\ put_cond' = [put_cond EXCEPT !.waiters = @ \ close_wakes]
       /\ get_cond' = [get_cond EXCEPT !.waiters = @ \ close_wakes]
       /\ f_pc' = [Woken(f_pc, close_wakes) EXCEPT ![t] = "idle"]
       /\ f_ret' = [f_ret EXCEPT ![t] = 0]
       /\ UNCHANGED <<create_args, create_pc, lock, f_freed, f_aborted>>
       /\ UNCHANGED OutsideFifo

(***************************************************************************)
(* The FIFO: gcs_fifo_lite_destroy                                         *)
(***************************************************************************)
\* mutant: EBUSY also while woken threads have not yet taken the mutex
cond_destroy_woken(cond) ==
    IF cond.waiters # {} \/ \E t \in Threads : f_pc[t] = "relock"
    THEN EBUSY ELSE 0

\* pthread_cond_destroy: EBUSY while threads are blocked on the condition
cond_destroy(cond) == IF cond.waiters # {} THEN EBUSY ELSE 0

\* the threads waiting for the mutex, or inside gu_cond_wait with it
UsingLock == {t \in Threads : f_pc[t] \in {"lock", "relock", "wait"}}

\* gu_mutex_destroy: EBUSY while the mutex is held; while other threads
\* are only waiting for it, or use it in gu_cond_wait, the result is not
\* defined: the mutex is destroyed, or EBUSY is returned
mutex_destroy ==
    IF lock.owner # NoThread THEN {EBUSY}
    ELSE IF UsingLock # {} THEN {0, EBUSY}
    ELSE {0}

\* gcs_fifo_lite_destroy (f): line 82 and the call of gu_mutex_lock
DestroyCall ==
    \E d \in Destroyers, f_null \in BOOLEAN :
       /\ ~f_aborted
       /\ f_pc[d] = "idle"
       /\ IF f_null
          THEN /\ f_pc' = [f_pc EXCEPT ![d] = "done"]
               /\ f_ret' = [f_ret EXCEPT ![d] = -EINVAL]
          ELSE /\ f_pc' = [f_pc EXCEPT ![d] = "lock"]
               /\ UNCHANGED f_ret
       /\ UNCHANGED <<create_args, create_pc, fifo, lock, put_cond, get_cond,
                      f_freed, f_aborted>>
       /\ UNCHANGED OutsideFifo

\* lines 83 to 92: the lock is taken; a FIFO already being destroyed is
\* left alone, otherwise it is marked closed and destroyed
DestroyLock ==
    \E d \in Destroyers :
       /\ Live
       /\ CanLock(d)
       /\ IF fifo.destroyed
          THEN /\ f_pc' = [f_pc EXCEPT ![d] = "done"]
               /\ f_ret' = [f_ret EXCEPT ![d] = -EALREADY]
               /\ UNCHANGED <<fifo, lock>>
          ELSE /\ fifo' = [fifo EXCEPT !.closed = TRUE, !.destroyed = TRUE]
               /\ lock' = mutex_lock(d)
               /\ f_pc' = [f_pc EXCEPT ![d] = "put_cond"]
               /\ UNCHANGED f_ret
       /\ UNCHANGED <<create_args, create_pc, put_cond, get_cond, f_freed,
                      f_aborted>>
       /\ UNCHANGED OutsideFifo

\* lines 95 to 102: one round of the loop that destroys put_cond
DestroyPutCond ==
    \E d \in Destroyers :
       /\ Live
       /\ f_pc[d] = "put_cond"
       /\ IF cond_destroy(put_cond) = 0
          THEN /\ put_cond' = [put_cond EXCEPT !.destroyed = TRUE]
               /\ f_pc' = [f_pc EXCEPT ![d] = "drain"]
               /\ UNCHANGED <<fifo, f_aborted>>
          ELSE IF fifo.put_wait <= 0
          THEN /\ f_aborted' = TRUE
               /\ UNCHANGED <<fifo, put_cond, f_pc>>
          ELSE /\ fifo' = [fifo EXCEPT !.put_wait = 0]
               /\ f_pc' = Woken(f_pc, put_cond.waiters)
               /\ put_cond' = cond_broadcast(put_cond)
               /\ UNCHANGED f_aborted
       /\ UNCHANGED <<create_args, create_pc, lock, get_cond, f_ret, f_freed>>
       /\ UNCHANGED OutsideFifo

\* mutant: the items still queued are not waited for
DestroyDrainNoWait ==
    \E d \in Destroyers :
       /\ Live
       /\ f_pc[d] = "drain"
       /\ fifo' = [fifo EXCEPT !.length = 0]
       /\ f_pc' = [f_pc EXCEPT ![d] = "get_cond"]
       /\ UNCHANGED <<create_args, create_pc, lock, put_cond, get_cond,
                      f_ret, f_freed, f_aborted>>
       /\ UNCHANGED OutsideFifo

\* lines 104 to 114: while items remain the lock is released for the
\* consumers; with none left the length is zeroed
DestroyDrain ==
    \E d \in Destroyers :
       /\ Live
       /\ f_pc[d] = "drain"
       /\ IF fifo.used # 0
          THEN /\ lock' = mutex_unlock
               /\ f_pc' = [f_pc EXCEPT ![d] = "sleep"]
               /\ UNCHANGED fifo
          ELSE /\ fifo' = [fifo EXCEPT !.length = 0]
               /\ f_pc' = [f_pc EXCEPT ![d] = "get_cond"]
               /\ UNCHANGED lock
       /\ UNCHANGED <<create_args, create_pc, put_cond, get_cond, f_ret,
                      f_freed, f_aborted>>
       /\ UNCHANGED OutsideFifo

\* line 112: after the sleep the lock is taken again
DestroySleep ==
    \E d \in Destroyers :
       /\ Live
       /\ f_pc[d] = "sleep"
       /\ lock.owner = NoThread
       /\ lock' = mutex_lock(d)
       /\ f_pc' = [f_pc EXCEPT ![d] = "drain"]
       /\ UNCHANGED <<create_args, create_pc, fifo, put_cond, get_cond,
                      f_ret, f_freed, f_aborted>>
       /\ UNCHANGED OutsideFifo

\* lines 117 to 127: one round of the loop that destroys get_cond; once it
\* is destroyed the lock is released
DestroyGetCond ==
    \E d \in Destroyers :
       /\ Live
       /\ f_pc[d] = "get_cond"
       /\ IF cond_destroy(get_cond) = 0
          THEN /\ get_cond' = [get_cond EXCEPT !.destroyed = TRUE]
               /\ lock' = mutex_unlock
               /\ f_pc' = [f_pc EXCEPT ![d] = "mutex_destroy"]
               /\ UNCHANGED <<fifo, f_aborted>>
          ELSE IF fifo.get_wait <= 0
          THEN /\ f_aborted' = TRUE
               /\ UNCHANGED <<fifo, get_cond, lock, f_pc>>
          ELSE /\ fifo' = [fifo EXCEPT !.get_wait = 0]
               /\ f_pc' = Woken(f_pc, get_cond.waiters)
               /\ get_cond' = cond_broadcast(get_cond)
               /\ UNCHANGED <<lock, f_aborted>>
       /\ UNCHANGED <<create_args, create_pc, put_cond, f_ret, f_freed>>
       /\ UNCHANGED OutsideFifo

\* line 128: gu_mutex_destroy
DestroyMutex ==
    \E d \in Destroyers : \E r \in mutex_destroy :
       /\ Live
       /\ f_pc[d] = "mutex_destroy"
       /\ IF r = 0
          THEN /\ lock' = [lock EXCEPT !.destroyed = TRUE]
               /\ f_pc' = [f_pc EXCEPT ![d] = "free"]
          ELSE /\ f_pc' = [f_pc EXCEPT ![d] = "mutex_lock"]
               /\ UNCHANGED lock
       /\ UNCHANGED <<create_args, create_pc, fifo, put_cond, get_cond,
                      f_ret, f_freed, f_aborted>>
       /\ UNCHANGED OutsideFifo

\* lines 131 and 132: the mutex is taken and released before the next try
DestroyMutexLock ==
    \E d \in Destroyers :
       /\ Live
       /\ f_pc[d] = "mutex_lock"
       /\ lock.owner = NoThread
       /\ f_pc' = [f_pc EXCEPT ![d] = "mutex_destroy"]
       /\ UNCHANGED <<create_args, create_pc, fifo, lock, put_cond, get_cond,
                      f_ret, f_freed, f_aborted>>
       /\ UNCHANGED OutsideFifo

\* lines 136 to 138: the queue and the object are freed
DestroyFree ==
    \E d \in Destroyers :
       /\ ~f_aborted
       /\ f_pc[d] = "free"
       /\ f_freed' = f_freed + 1
       /\ f_pc' = [f_pc EXCEPT ![d] = "done"]
       /\ f_ret' = [f_ret EXCEPT ![d] = 0]
       /\ UNCHANGED <<create_args, create_pc, fifo, lock, put_cond, get_cond,
                      f_aborted>>
       /\ UNCHANGED OutsideFifo

\* a thread whose call needs the freed FIFO
TouchFreed ==
    \E t \in Threads :
       /\ t \in Threads
       /\ UseAfterFree(t)

FifoNext ==
    \/ PutCall
    \/ PutGetTail
    \/ PutPushTail
    \/ GetCall
    \/ GetGetHead
    \/ GetPopHead
    \/ CloseCall
    \/ CloseLocked
    \/ DestroyCall
    \/ DestroyLock
    \/ DestroyPutCond
    \/ DestroyDrain
    \/ DestroySleep
    \/ DestroyGetCond
    \/ DestroyMutex
    \/ DestroyMutexLock
    \/ DestroyFree
    \/ TouchFreed

(***************************************************************************)
(* The gcomm backend: create, open, close, destroy and gcs_gcomm_send      *)
(***************************************************************************)
\* what pass_down did in a call of gcs_gcomm_send
NoDown == [called |-> FALSE, threw |-> FALSE, err |-> 0]
Down(threw, err) == [called |-> TRUE, threw |-> threw, err |-> err]
DownOutcomes ==
    {Down(FALSE, 0)} \cup {Down(FALSE, e) : e \in PassDownErrs}
                     \cup {Down(TRUE, 0)}

NoSend == [msg_type |-> 0, len |-> 0, ret |-> 0, down |-> NoDown,
           returned |-> FALSE]
Sent(msg_type, len, ret, down) ==
    [msg_type |-> msg_type, len |-> len, ret |-> ret, down |-> down,
     returned |-> TRUE]

\* a backend before gcs_gcomm_create
SInit ==
    /\ b_conn = "null"
    /\ b_vs = "null"
    /\ b_ret = 0
    /\ s_last = NoSend
    /\ s_down = <<>>
    /\ s_crashed = FALSE

\* gcs_gcomm_create: a new conn_t, whose vs_ctx has no transport
BackendCreate ==
    \E err \in {0, ENOMEM, EINVAL} :
       /\ ~s_crashed
       /\ IF err = 0
          THEN b_conn' = "live" /\ b_vs' = "null"
          ELSE UNCHANGED <<b_conn, b_vs>>
       /\ b_ret' = -err
       /\ UNCHANGED <<s_last, s_down, s_crashed>>
       /\ UNCHANGED OutsideSend

\* gcs_gcomm_open: Transport::create, connect, gu_thread_create
BackendOpen ==
    \E outcome \in {"ok", "create_throws", "connect_throws", "no_thread"} :
       /\ ~s_crashed
       /\ IF b_conn = "null"
          THEN b_ret' = -EBADFD /\ UNCHANGED b_vs
          ELSE /\ b_vs' = IF outcome = "create_throws" THEN b_vs ELSE "live"
               /\ b_ret' = CASE outcome = "ok" -> 0
                             [] outcome = "no_thread" -> -EAGAIN
                             [] OTHER -> -EINVAL
       /\ UNCHANGED <<b_conn, s_last, s_down, s_crashed>>
       /\ UNCHANGED OutsideSend

\* gcs_gcomm_close: delete conn->vs_ctx.vs, the pointer is not reset; a
\* second delete of the same transport is undefined: it crashes or passes
BackendClose ==
    \E crash \in BOOLEAN :
       /\ ~s_crashed
       /\ crash => b_conn = "live" /\ b_vs = "deleted"
       /\ IF b_conn = "null"
          THEN b_ret' = -EBADFD /\ UNCHANGED <<b_vs, s_crashed>>
          ELSE /\ b_vs' = IF b_vs = "null" THEN "null" ELSE "deleted"
               /\ s_crashed' = crash
               /\ b_ret' = IF crash THEN b_ret ELSE 0
       /\ UNCHANGED <<b_conn, s_last, s_down>>
       /\ UNCHANGED OutsideSend

\* gcs_gcomm_destroy: backend->conn = 0; delete conn
BackendDestroy ==
    /\ ~s_crashed
    /\ IF b_conn = "null"
       THEN b_ret' = -EBADFD /\ UNCHANGED <<b_conn, b_vs>>
       ELSE b_conn' = "null" /\ b_vs' = "null" /\ b_ret' = 0
    /\ UNCHANGED <<s_last, s_down, s_crashed>>
    /\ UNCHANGED OutsideSend

\* mutant: the upper limit of msg_type is off by one
send_type_invalid_above(msg_type) == msg_type < 0 \/ msg_type > 255

\* gcs_gcomm_send: msg_type < 0 || msg_type >= 0xff
send_type_invalid(msg_type) == msg_type < 0 \/ msg_type >= 255

\* ProtoDownMeta(msg_type): the user type is held in a uint8_t
ProtoDownMeta(msg_type) == [user_type |-> msg_type % 256]

\* what gcs_gcomm_send returns after pass_down
send_result(len, down) ==
    IF down.threw THEN -ENOTCONN
    ELSE IF down.err = 0 THEN len ELSE -down.err

\* gcs_gcomm_send; pass_down on a deleted transport is undefined: it
\* behaves as on a live one or crashes
Send ==
    \E msg_type \in SendMsgTypes, len \in 0..MaxSendLen,
       down \in DownOutcomes, crash \in BOOLEAN :
       /\ ~s_crashed
       /\ crash => /\ b_conn = "live" /\ b_vs = "deleted"
                   /\ ~send_type_invalid(msg_type)
       /\ IF crash
          THEN /\ s_crashed' = TRUE
               /\ s_down' = <<[len |-> len, vdm |-> ProtoDownMeta(msg_type)]>>
               /\ UNCHANGED s_last
          ELSE /\ UNCHANGED s_crashed
               /\ IF b_conn = "null"
                  THEN /\ s_last' = Sent(msg_type, len, -EBADFD, NoDown)
                       /\ s_down' = <<>>
                  ELSE IF b_vs = "null"
                  THEN /\ s_last' = Sent(msg_type, len, -ENOTCONN, NoDown)
                       /\ s_down' = <<>>
                  ELSE IF send_type_invalid(msg_type)
                  THEN /\ s_last' = Sent(msg_type, len, -EINVAL, NoDown)
                       /\ s_down' = <<>>
                  ELSE /\ s_last' = Sent(msg_type, len,
                                         send_result(len, down), down)
                       /\ s_down' = <<[len |-> len,
                                       vdm |-> ProtoDownMeta(msg_type)]>>
       /\ UNCHANGED <<b_conn, b_vs, b_ret>>
       /\ UNCHANGED OutsideSend

SendNext ==
    \/ BackendCreate
    \/ BackendOpen
    \/ BackendClose
    \/ BackendDestroy
    \/ Send

(***************************************************************************)
(* The reactor socket: the mock engine and handler of the tests, and the   *)
(* client socket they are attached to                                      *)
(***************************************************************************)
\* MockStreamEngine::MockStreamEngine, MockSocketHandler::MockSocketHandler
\* and a socket made by make_socket
AInit ==
    /\ a_role = "client"
    /\ a_engine = [next_result |-> "success", next_error |-> 0,
                   last_error |-> 0, count_client_handshake_called |-> 0,
                   count_server_handshake_called |-> 0,
                   count_read_called |-> 0, count_write_called |-> 0]
    /\ a_handler = [invocations |-> <<>>, connect_handler_called |-> FALSE,
                    expect_read |-> 0, bytes_read |-> 0,
                    bytes_written |-> 0, last_error_code |-> NoError]
    /\ a_sock = [state |-> "created", wait |-> "none"]
    /\ a_peer_closed = FALSE
    /\ a_rctx = [size |-> 0, transferred |-> 0, read_completion |-> 0,
                 wait |-> "none"]
    /\ a_wctx = [size |-> 0, transferred |-> 0, wait |-> "none"]
    /\ a_rcv = 0
    /\ a_call = [n |-> 0, len |-> 0, errno |-> 0]
    /\ a_acc = [n |-> 0, len |-> 0]
    /\ a_hs = <<>>
    /\ a_reads = [n |-> 0, bytes |-> 0]

\* the socket the acceptor has been asked to accept: async_accept with a
\* MockStreamEngine and the acceptor handler's next_socket_handler
AInitAccepted ==
    /\ a_role = "accepted"
    /\ a_engine = [next_result |-> "success", next_error |-> 0,
                   last_error |-> 0, count_client_handshake_called |-> 0,
                   count_server_handshake_called |-> 0,
                   count_read_called |-> 0, count_write_called |-> 0]
    /\ a_handler = [invocations |-> <<>>, connect_handler_called |-> FALSE,
                    expect_read |-> 0, bytes_read |-> 0,
                    bytes_written |-> 0, last_error_code |-> NoError]
    /\ a_sock = [state |-> "accepting", wait |-> "none"]
    /\ a_wctx = [size |-> 0, transferred |-> 0, wait |-> "none"]
    /\ a_rcv = 0
    /\ a_peer_closed = FALSE
    /\ a_rctx = [size |-> 0, transferred |-> 0, read_completion |-> 0,
                 wait |-> "none"]
    /\ a_call = [n |-> 0, len |-> 0, errno |-> 0]
    /\ a_acc = [n |-> 0, len |-> 0]
    /\ a_hs = <<>>
    /\ a_reads = [n |-> 0, bytes |-> 0]

\* mutant: the call does not set last_error_
client_handshake_keeps_error(e) ==
    [e EXCEPT !.count_client_handshake_called = @ + 1]

\* MockStreamEngine::client_handshake: the engine after the call
client_handshake(e) ==
    [e EXCEPT !.count_client_handshake_called = @ + 1,
              !.last_error = e.next_error]

\* MockStreamEngine::server_handshake: the engine after the call
server_handshake(e) ==
    [e EXCEPT !.count_server_handshake_called = @ + 1,
              !.last_error = e.next_error]

\* mutant: an injected result leaves last_error_ as it was
map_return_value_keeps_error(e, result, return_on_block, errno_again) ==
    IF e.next_result # "success"
    THEN [status |-> e.next_result, bytes |-> result,
          last_error |-> e.last_error]
    ELSE IF result > 0
    THEN [status |-> "success", bytes |-> result, last_error |-> e.last_error]
    ELSE [status |-> "eof", bytes |-> result, last_error |-> e.last_error]

\* MockStreamEngine::map_return_value: status, bytes, the engine's last
\* error after it; size_t(result) is result for the results >= 0 of send
map_return_value(e, result, return_on_block, errno_again) ==
    IF e.next_result # "success"
    THEN [status |-> e.next_result, bytes |-> result,
          last_error |-> e.next_error]
    ELSE IF result > 0
    THEN [status |-> "success", bytes |-> result, last_error |-> e.last_error]
    ELSE IF result = 0
    THEN [status |-> "eof", bytes |-> result, last_error |-> e.last_error]
    ELSE IF errno_again
    THEN [status |-> return_on_block, bytes |-> result,
          last_error |-> EAGAIN]
    ELSE [status |-> "error", bytes |-> result, last_error |-> e.next_error]

\* ::send(fd_, buf, count, MSG_NOSIGNAL) on a connected socket whose send
\* buffer has room: some or all of the bytes
SendResults(count) == IF count = 0 THEN {0} ELSE 1..count

\* mutant: the handler does not record that it was called
connect_handler_unflagged(h, ec) ==
    [h EXCEPT !.invocations = Append(@, [op |-> "connect", n |-> 0]),
              !.last_error_code = ec]

\* MockSocketHandler::connect_handler
connect_handler(h, ec) ==
    [h EXCEPT !.invocations = Append(@, [op |-> "connect", n |-> 0]),
              !.connect_handler_called = TRUE,
              !.last_error_code = ec]

\* MockSocketHandler::write_handler
write_handler(h, ec, bytes_transferred) ==
    [h EXCEPT !.invocations = Append(@, [op |-> "write",
                                         n |-> bytes_transferred]),
              !.bytes_written = @ + bytes_transferred,
              !.last_error_code = ec]

\* mutant: eof is reported as the engine's last error
status_error_plain(status, e) == EngineError(e.last_error)

\* the error code a handler gets for a status eof or error of the engine
status_error(status, e) ==
    IF status = "eof" THEN EofError ELSE EngineError(e.last_error)

\* mutant: the socket does not wait for the peer
ReadyAlways(wait) == wait # "none"

\* the socket can go on with what it waits for: it is writable, and it is
\* readable when the peer has written or has closed
Ready(wait) ==
    \/ wait \in {"io", "write"}
    \/ wait = "read" /\ (a_rcv > 0 \/ a_peer_closed)

\* the test sets next_result and next_error of the engine
SetNextResult ==
    \E r \in OpStatus, err \in {0, EPIPE} :
       /\ a_engine' = [a_engine EXCEPT !.next_result = r, !.next_error = err]
       /\ a_engine' # a_engine
       /\ UNCHANGED <<a_handler, a_sock, a_wctx, a_rcv, a_call, a_acc, a_hs>>
       /\ UNCHANGED OutsideWrite

\* the peer writes to the socket
PeerWrite ==
    /\ a_sock.state \notin {"created", "connecting", "accepting"}
    /\ ~a_peer_closed
    /\ a_rcv < MaxPeerBytes
    /\ a_rcv' = a_rcv + 1
    /\ UNCHANGED <<a_engine, a_handler, a_sock, a_wctx, a_call, a_acc, a_hs>>
    /\ UNCHANGED OutsideWrite

\* socket->async_connect(addr, handler)
AsyncConnect ==
    /\ a_sock.state = "created"
    /\ a_sock' = [state |-> "connecting", wait |-> "none"]
    /\ UNCHANGED <<a_engine, a_handler, a_wctx, a_rcv, a_call, a_acc, a_hs>>
    /\ UNCHANGED OutsideWrite

\* run_one: the connect has completed, the handshake is started
RunOneConnect ==
    /\ a_sock.state = "connecting"
    /\ a_sock' = [state |-> "handshake", wait |-> "io"]
    /\ UNCHANGED <<a_engine, a_handler, a_wctx, a_rcv, a_call, a_acc, a_hs>>
    /\ UNCHANGED OutsideWrite

\* run_one: the acceptor has accepted the connection, the handshake of the
\* accepted socket is started
RunOneAccept ==
    /\ a_sock.state = "accepting"
    /\ a_sock' = [state |-> "handshake", wait |-> "io"]
    /\ UNCHANGED <<a_engine, a_handler, a_wctx, a_rcv, a_call, a_acc, a_hs>>
    /\ UNCHANGED OutsideWrite

\* run_one: the socket calls client_handshake, or server_handshake on the
\* accepted side, and acts on its result; a failed handshake of an
\* accepted socket is reported to the acceptor's handler, not the socket's
RunOneHandshake ==
    /\ a_sock.state = "handshake"
    /\ Ready(a_sock.wait)
    /\ Len(a_hs) < MaxHandshakes
    /\ LET result == a_engine.next_result
           e == IF a_role = "client" THEN client_handshake(a_engine)
                ELSE server_handshake(a_engine)
       IN  /\ a_engine' = e
           /\ a_hs' = Append(a_hs, result)
           /\ CASE result = "success" ->
                     /\ a_sock' = [state |-> "connected", wait |-> "none"]
                     /\ a_handler' = connect_handler(a_handler, NoError)
                [] result = "want_read" ->
                     /\ a_sock' = [a_sock EXCEPT !.wait = "read"]
                     /\ UNCHANGED a_handler
                [] result = "want_write" ->
                     /\ a_sock' = [a_sock EXCEPT !.wait = "write"]
                     /\ UNCHANGED a_handler
                [] OTHER ->
                     /\ a_sock' = [state |-> "failed", wait |-> "none"]
                     /\ a_handler' =
                           IF a_role = "client"
                           THEN connect_handler(a_handler,
                                                status_error(result, e))
                           ELSE a_handler
    /\ UNCHANGED <<a_wctx, a_rcv, a_call, a_acc>>
    /\ UNCHANGED OutsideWrite

\* mutant: the socket takes a second write while one is outstanding
write_busy_never(ctx) == FALSE

\* the socket has a write outstanding
write_busy(ctx) == ctx.size # 0

\* socket->async_write(bufs, handler) on a connected socket
AsyncWrite ==
    \E len \in 1..MaxWriteLen :
       /\ a_sock.state = "connected"
       /\ a_call.n < MaxWriteCalls
       /\ IF write_busy(a_wctx)
          THEN /\ a_call' = [n |-> a_call.n + 1, len |-> len, errno |-> EBUSY]
               /\ UNCHANGED <<a_wctx, a_acc>>
          ELSE /\ a_call' = [n |-> a_call.n + 1, len |-> len, errno |-> 0]
               /\ a_wctx' = [size |-> len, transferred |-> 0,
                             wait |-> IF a_wctx.wait = "none" THEN "write"
                                      ELSE a_wctx.wait]
               /\ a_acc' = [n |-> a_acc.n + 1, len |-> len]
       /\ UNCHANGED <<a_engine, a_handler, a_sock, a_rcv, a_hs>>
       /\ UNCHANGED OutsideWrite

\* run_one: the socket calls the engine's write with what is left of the
\* buffer, counts the bytes written, calls the handler when all are
\* written, and acts on the status
RunOneWrite ==
    \E result \in SendResults(a_wctx.size - a_wctx.transferred) :
       /\ a_sock.state = "connected"
       /\ Ready(a_wctx.wait)
       /\ a_engine.count_write_called < MaxEngineWrites
       /\ LET r == map_return_value(a_engine, result, "want_write", FALSE)
              e == [a_engine EXCEPT !.count_write_called = @ + 1,
                                    !.last_error = r.last_error]
              done == a_wctx.transferred + r.bytes
              complete == r.bytes > 0 /\ done = a_wctx.size
              h1 == IF complete
                    THEN write_handler(a_handler, NoError, done)
                    ELSE a_handler
              c1 == IF complete
                    THEN [size |-> 0, transferred |-> 0, wait |-> "none"]
                    ELSE [size |-> a_wctx.size, transferred |-> done,
                          wait |-> IF r.bytes > 0 THEN "write" ELSE "none"]
          IN  /\ a_engine' = e
              /\ IF r.status \in {"eof", "error"}
                 THEN /\ a_handler' = write_handler(h1, status_error(r.status, e),
                                                    c1.transferred)
                      /\ a_wctx' = [size |-> 0, transferred |-> 0,
                                    wait |-> "none"]
                      /\ a_sock' = [state |-> "closed", wait |-> "none"]
                 ELSE /\ a_handler' = h1
                      /\ a_wctx' = [c1 EXCEPT !.wait =
                                      IF r.status = "want_write"
                                      THEN "write"
                                      ELSE IF r.status = "want_read"
                                      THEN "read"
                                      ELSE c1.wait]
                      /\ UNCHANGED a_sock
       /\ UNCHANGED <<a_rcv, a_call, a_acc, a_hs>>
       /\ UNCHANGED OutsideWrite

\* a connected socket of either side: its handshake succeeded at once and
\* connect_handler has been invoked
AInitConnected ==
    /\ a_role \in {"client", "accepted"}
    /\ a_engine = [next_result |-> "success", next_error |-> 0,
                   last_error |-> 0,
                   count_client_handshake_called |->
                      IF a_role = "client" THEN 1 ELSE 0,
                   count_server_handshake_called |->
                      IF a_role = "client" THEN 0 ELSE 1,
                   count_read_called |-> 0, count_write_called |-> 0]
    /\ a_handler = [invocations |-> <<[op |-> "connect", n |-> 0]>>,
                    connect_handler_called |-> TRUE,
                    expect_read |-> 0, bytes_read |-> 0,
                    bytes_written |-> 0, last_error_code |-> NoError]
    /\ a_sock = [state |-> "connected", wait |-> "none"]
    /\ a_wctx = [size |-> 0, transferred |-> 0, wait |-> "none"]
    /\ a_rcv = 0
    /\ a_peer_closed = FALSE
    /\ a_rctx = [size |-> 0, transferred |-> 0, read_completion |-> 0,
                 wait |-> "none"]
    /\ a_call = [n |-> 0, len |-> 0, errno |-> 0]
    /\ a_acc = [n |-> 0, len |-> 0]
    /\ a_hs = <<"success">>
    /\ a_reads = [n |-> 0, bytes |-> 0]

\* ::recv(fd_, buf, max_count, 0) has something to return: nothing is asked
\* for, or the peer has written or has closed. Otherwise it fails with EAGAIN
\* and map_return_value reports size_t(-1) bytes
recv_returns(max_count) == max_count = 0 \/ a_rcv > 0 \/ a_peer_closed

\* ::recv(fd_, buf, max_count, 0) when it has something to return: the bytes
\* that are there, up to max_count; 0 at the end of the stream and for
\* max_count 0
recv(max_count) == IF a_rcv < max_count THEN a_rcv ELSE max_count

\* mutant: the handler never asks for more
read_completion_condition_zero(h, bytes_transferred) == 0

\* MockSocketHandler::read_completion_condition: what it returns
read_completion_condition(h, bytes_transferred) ==
    h.expect_read -
       (IF bytes_transferred + h.bytes_read < h.expect_read
        THEN bytes_transferred + h.bytes_read ELSE h.expect_read)

\* MockSocketHandler::read_completion_condition: the handler after it
read_completion_called(h, ec, bytes_transferred) ==
    [h EXCEPT !.invocations = Append(@, [op |-> "read_completion",
                                         n |-> bytes_transferred]),
              !.last_error_code = ec]

\* mutant: the handler keeps the count of the last read only
read_handler_last(h, ec, bytes_transferred) ==
    [h EXCEPT !.invocations = Append(@, [op |-> "read",
                                         n |-> bytes_transferred]),
              !.bytes_read = bytes_transferred,
              !.last_error_code = ec]

\* MockSocketHandler::read_handler
read_handler(h, ec, bytes_transferred) ==
    [h EXCEPT !.invocations = Append(@, [op |-> "read",
                                         n |-> bytes_transferred]),
              !.bytes_read = @ + bytes_transferred,
              !.last_error_code = ec]

\* the test: handler->expect_read(bytes)
ExpectRead ==
    \E bytes \in 0..MaxReadLen :
       /\ a_rctx.size = 0
       /\ a_handler.expect_read # bytes
       /\ a_handler' = [a_handler EXCEPT !.expect_read = bytes]
       /\ UNCHANGED <<a_engine, a_sock, a_rcv, a_peer_closed, a_rctx, a_reads>>
       /\ UNCHANGED OutsideRead

\* the test: handler->consume(count)
Consume ==
    \E count \in 1..MaxReadLen :
       /\ a_rctx.size = 0
       /\ count <= a_handler.bytes_read
       /\ a_handler' = [a_handler EXCEPT !.bytes_read = @ - count]
       /\ UNCHANGED <<a_engine, a_sock, a_rcv, a_peer_closed, a_rctx, a_reads>>
       /\ UNCHANGED OutsideRead

\* the peer closes its socket
PeerClose ==
    /\ a_sock.state = "connected"
    /\ ~a_peer_closed
    /\ a_peer_closed' = TRUE
    /\ UNCHANGED <<a_engine, a_handler, a_sock, a_rcv, a_rctx, a_reads>>
    /\ UNCHANGED OutsideRead

\* socket->async_read(buf, handler) on a connected socket with no read
\* outstanding and no call of the engine's read pending
AsyncRead ==
    \E size \in 1..MaxReadLen :
       /\ a_sock.state = "connected"
       /\ a_rctx.size = 0
       /\ a_rctx.wait = "none"
       /\ a_reads.n < MaxReadCalls
       /\ a_rctx' = [size |-> size, transferred |-> 0, read_completion |-> 0,
                     wait |-> "read"]
       /\ a_reads' = [n |-> a_reads.n + 1, bytes |-> 0]
       /\ UNCHANGED <<a_engine, a_handler, a_sock, a_rcv, a_peer_closed>>
       /\ UNCHANGED OutsideRead

\* what is left to read: what the completion condition asked for, or the
\* rest of the buffer
left_to_read(ctx) ==
    IF ctx.read_completion # 0 THEN ctx.read_completion
    ELSE ctx.size - ctx.transferred

\* run_one: the socket calls the engine's read for what is left to read,
\* counts the bytes read, asks read_completion_condition, calls the read
\* handler when that returns zero, and acts on the status. The engine's read
\* is called where its recv returns
RunOneRead ==
    /\ a_sock.state = "connected"
    /\ Ready(a_rctx.wait)
    /\ recv_returns(left_to_read(a_rctx))
    /\ a_engine.count_read_called < MaxEngineReads
    /\ LET result == recv(left_to_read(a_rctx))
           r == map_return_value(a_engine, result, "want_read", FALSE)
           e == [a_engine EXCEPT !.count_read_called = @ + 1,
                                 !.last_error = r.last_error]
           done == a_rctx.transferred + r.bytes
           more == read_completion_condition(a_handler, done)
           complete == r.bytes > 0 /\ more = 0
           h0 == IF r.bytes > 0
                 THEN read_completion_called(a_handler, NoError, done)
                 ELSE a_handler
           h1 == IF complete THEN read_handler(h0, NoError, done) ELSE h0
           room == a_rctx.size - done
           c1 == IF complete
                 THEN [size |-> 0, transferred |-> 0, read_completion |-> 0,
                       wait |-> "none"]
                 ELSE IF r.bytes > 0
                 THEN [size |-> a_rctx.size, transferred |-> done,
                       read_completion |-> IF more < room THEN more ELSE room,
                       wait |-> "read"]
                 ELSE [a_rctx EXCEPT !.wait = "none"]
       IN  /\ a_engine' = e
           /\ a_rcv' = a_rcv - result
           /\ a_reads' = [a_reads EXCEPT !.bytes = @ + r.bytes]
           /\ IF r.status \in {"eof", "error"}
              THEN /\ a_handler' = read_handler(h1, status_error(r.status, e),
                                                c1.transferred)
                   /\ a_rctx' = [size |-> 0, transferred |-> 0,
                                 read_completion |-> 0, wait |-> "none"]
                   /\ a_sock' = [state |-> "closed", wait |-> "none"]
              ELSE /\ a_handler' = h1
                   /\ a_rctx' = [c1 EXCEPT !.wait =
                                   IF r.status = "want_write"
                                   THEN "write"
                                   ELSE IF r.status = "want_read"
                                   THEN "read"
                                   ELSE c1.wait]
                   /\ UNCHANGED a_sock
    /\ UNCHANGED a_peer_closed
    /\ UNCHANGED OutsideRead

AsioNext ==
    \/ SetNextResult
    \/ PeerWrite
    \/ AsyncConnect
    \/ RunOneConnect
    \/ RunOneAccept
    \/ RunOneHandshake
    \/ AsyncWrite
    \/ RunOneWrite

\* a test of reading: the socket has not been written to
ReadTest == a_call.n = 0

\* a test of writing: the socket has not been read from
WriteTest == a_reads.n = 0 /\ a_handler.expect_read = 0

TestExpectRead ==
    /\ ReadTest
    /\ ExpectRead

TestAsyncRead ==
    /\ ReadTest
    /\ AsyncRead

TestAsyncWrite ==
    /\ WriteTest
    /\ AsyncWrite

\* reading or writing on a connected socket
IONext ==
    \/ SetNextResult
    \/ PeerWrite
    \/ PeerClose
    \/ TestExpectRead
    \/ Consume
    \/ TestAsyncRead
    \/ RunOneRead
    \/ TestAsyncWrite
    \/ RunOneWrite

\* connecting or accepting, and the handshake
HandshakeNext ==
    \/ SetNextResult
    \/ PeerWrite
    \/ AsyncConnect
    \/ RunOneConnect
    \/ RunOneAccept
    \/ RunOneHandshake

\* ---- the reactor ----

\* the operations whose completions the reactor queues
Completions == {"timer", "connect", "accept", "read", "write"}

\* gu::AsioIoService io_service: nothing started, nothing queued, run_one not
\* called (calls counts 0, 1, and 2 for more)
IoInit ==
    io_service = [ops |-> [k \in Completions |-> "idle"],
                  queue |-> <<>>,
                  run_one |-> [calls |-> 0, running |-> FALSE]]

\* mutant: run_one surfaces the completion queued last
next_completion_last(queue) == Len(queue)

\* the place in the queue of the completion run_one surfaces
next_completion(queue) == 1

\* the queue without its i-th completion
without(queue, i) ==
    [j \in 1..(Len(queue) - 1) |-> IF j < i THEN queue[j] ELSE queue[j + 1]]

\* timer.expires_from_now(d); timer.async_wait(handler)
AsyncWait ==
    /\ io_service.ops["timer"] \in {"idle", "handled"}
    /\ io_service' = [io_service EXCEPT !.ops["timer"] = "pending"]
    /\ UNCHANGED OutsideReactor

\* the time of the timer has come: its completion is queued
TimerExpires ==
    /\ io_service.ops["timer"] = "pending"
    /\ io_service' = [io_service EXCEPT !.ops["timer"] = "queued",
                                        !.queue = Append(@, "timer")]
    /\ UNCHANGED OutsideReactor

\* async_connect, async_accept, async_read or async_write is started
AsyncStart ==
    \E k \in Completions \ {"timer"} :
       /\ io_service.ops[k] \in {"idle", "handled"}
       /\ io_service' = [io_service EXCEPT !.ops[k] = "pending"]
       /\ UNCHANGED OutsideReactor

\* the peer or the network lets a started operation go on: its completion is
\* queued
Completes ==
    \E k \in Completions \ {"timer"} :
       /\ io_service.ops[k] = "pending"
       /\ io_service' = [io_service EXCEPT !.ops[k] = "queued",
                                           !.queue = Append(@, k)]
       /\ UNCHANGED OutsideReactor

\* io_service.run_one() is called
RunOneCall ==
    /\ ~io_service.run_one.running
    /\ io_service' = [io_service EXCEPT
                         !.run_one = [calls |-> IF @.calls = 0 THEN 1 ELSE 2,
                                      running |-> TRUE]]
    /\ UNCHANGED OutsideReactor

\* run_one waits until a completion is queued, surfaces one completion to its
\* handler and returns
RunOneReturn ==
    /\ io_service.run_one.running
    /\ io_service.queue # <<>>
    /\ LET i == next_completion(io_service.queue)
       IN  io_service' = [io_service EXCEPT
                             !.ops[io_service.queue[i]] = "handled",
                             !.queue = without(@, i),
                             !.run_one.running = FALSE]
    /\ UNCHANGED OutsideReactor

ReactorNext ==
    \/ AsyncWait
    \/ TimerExpires
    \/ AsyncStart
    \/ Completes
    \/ RunOneCall
    \/ RunOneReturn

\* ---- the event queue and its mutex ----

\* the backend after gcs_gcomm_open: the queue is empty, the mutex free, the
\* I/O thread in poll, no recv call in progress
EqSyncInit ==
    eq_sync = [mutex |-> "none", eq |-> 0, io |-> "poll", rx |-> "idle",
               interrupted |-> FALSE]

\* the lines at which the I/O thread is about to use eq (push_back at 114
\* and 128, empty and push_back at 138 to 146)
IoAccessLines == {"l114", "l128", "l138"}

\* the lines at which the receiver is about to use eq (size and front at 156
\* to 162, size in the assert at 169, front and pop_front at 172 and 173)
RxAccessLines == {"l156", "l169", "l172"}

\* handle_up is called from poll: with rb and um null, with an empty view,
\* or with a payload or a view that has members
HandleUpCall ==
    \E line \in {"l113", "l128", "l137"} :
       /\ eq_sync.io = "poll"
       /\ ~eq_sync.interrupted
       /\ eq_sync.eq + 2 <= MaxQueued
       /\ eq_sync' = [eq_sync EXCEPT !.io = line]
       /\ UNCHANGED OutsideEqSync

\* line 113 and line 137: gu::Lock lock(mutex)
HandleUpLock ==
    /\ eq_sync.io \in {"l113", "l137"}
    /\ eq_sync.mutex = "none"
    /\ eq_sync' = [eq_sync EXCEPT
                      !.mutex = "io",
                      !.io = IF @ = "l113" THEN "l114" ELSE "l138"]
    /\ UNCHANGED OutsideEqSync

\* lines 114 to 119: the sentinel is pushed, the lock goes out of scope, the
\* event loop is interrupted and handle_up returns
HandleUpPushEof ==
    /\ eq_sync.io = "l114"
    /\ eq_sync' = [eq_sync EXCEPT !.eq = @ + 1, !.mutex = "none",
                                  !.io = "poll", !.interrupted = TRUE]
    /\ UNCHANGED OutsideEqSync

\* line 128: eq.push_back of the empty view, before any lock is taken
HandleUpPushEmptyView ==
    /\ eq_sync.io = "l128"
    /\ eq_sync' = [eq_sync EXCEPT !.eq = @ + 1, !.io = "l131"]
    /\ UNCHANGED OutsideEqSync

\* lines 130 to 134: the mutex is locked for cond.signal() and unlocked, the
\* event loop is interrupted; there is no return, line 137 is next
HandleUpSignalEmptyView ==
    /\ eq_sync.io = "l131"
    /\ eq_sync.mutex = "none"
    /\ eq_sync' = [eq_sync EXCEPT !.io = "l137", !.interrupted = TRUE]
    /\ UNCHANGED OutsideEqSync

\* lines 138 to 150: eq.empty(), push_back, cond.signal(), and handle_up
\* returns, which unlocks
HandleUpPush ==
    /\ eq_sync.io = "l138"
    /\ eq_sync' = [eq_sync EXCEPT !.eq = @ + 1, !.mutex = "none",
                                  !.io = "poll"]
    /\ UNCHANGED OutsideEqSync

\* wait_event, line 154, and the wake-up of lock.wait(cond) at line 159:
\* the mutex is taken
WaitEventLock ==
    /\ \/ eq_sync.rx = "idle"
       \/ eq_sync.rx = "l159" /\ eq_sync.eq > 0
    /\ eq_sync.mutex = "none"
    /\ eq_sync' = [eq_sync EXCEPT !.mutex = "rx", !.rx = "l156"]
    /\ UNCHANGED OutsideEqSync

\* wait_event, lines 156 to 164: eq.size() is looked at; the receiver waits
\* on cond, which unlocks, or takes eq.front() and returns, which unlocks
WaitEventCheck ==
    /\ eq_sync.rx = "l156"
    /\ eq_sync' = [eq_sync EXCEPT !.mutex = "none",
                                  !.rx = IF eq_sync.eq = 0 THEN "l159"
                                         ELSE "returned"]
    /\ UNCHANGED OutsideEqSync

\* gcs_gcomm_recv, lines 384 to 389: the event is released when it fitted the
\* buffer; release_event starts with assert(eq.size()) at line 169 (a build
\* with NDEBUG has no code there and goes on to line 170)
RecvRelease ==
    \E line \in {"idle", "l169"} :
       /\ eq_sync.rx = "returned"
       /\ eq_sync' = [eq_sync EXCEPT !.rx = line]
       /\ UNCHANGED OutsideEqSync

\* release_event, line 169: assert(eq.size()), before the lock is taken
ReleaseEventAssert ==
    /\ eq_sync.rx = "l169"
    /\ eq_sync' = [eq_sync EXCEPT !.rx = "l170"]
    /\ UNCHANGED OutsideEqSync

\* release_event, line 170: gu::Lock lock(mutex)
ReleaseEventLock ==
    /\ eq_sync.rx = "l170"
    /\ eq_sync.mutex = "none"
    /\ eq_sync' = [eq_sync EXCEPT !.mutex = "rx", !.rx = "l172"]
    /\ UNCHANGED OutsideEqSync

\* release_event, lines 172 to 179: eq.front(), eq.pop_front(), and the
\* return unlocks
ReleaseEventPop ==
    /\ eq_sync.rx = "l172"
    /\ eq_sync' = [eq_sync EXCEPT !.eq = @ - 1, !.mutex = "none",
                                  !.rx = "idle"]
    /\ UNCHANGED OutsideEqSync

EqSyncNext ==
    \/ HandleUpCall
    \/ HandleUpLock
    \/ HandleUpPushEof
    \/ HandleUpPushEmptyView
    \/ HandleUpSignalEmptyView
    \/ HandleUpPush
    \/ WaitEventLock
    \/ WaitEventCheck
    \/ RecvRelease
    \/ ReleaseEventAssert
    \/ ReleaseEventLock
    \/ ReleaseEventPop

\* ---- the copies of queued events ----

\* gcs_gcomm::gcs_gcomm: the queue is empty, nothing was copied
EvHeapInit ==
    ev_heap = [eq |-> <<>>, gone |-> {}, n_up |-> 0, destroyed |-> FALSE]

\* a pointer member of vs_ev: null, or an object with the number of times
\* it has been freed
NullPtr == <<>>
Object(frees) == <<frees>>

\* vs_ev::vs_ev(r, um, roff, ms, v), lines 37 to 51: the buffer is copied
\* when r is given, the view when v is given
vs_ev_new(r, v) ==
    [rb |-> IF r THEN Object(0) ELSE NullPtr,
     view |-> IF v THEN Object(0) ELSE NullPtr]

\* vs_ev::vs_ev(const vs_ev&), lines 53 to 62: new copies of both
vs_ev_copy(ev) == vs_ev_new(ev.rb # NullPtr, ev.view # NullPtr)

\* operator delete on a pointer member; delete of a null pointer does nothing
delete(ptr) == IF ptr = NullPtr THEN NullPtr ELSE Object(ptr[1] + 1)

\* vs_ev::~vs_ev, lines 64 to 68
vs_ev_destroy(ev) == [rb |-> delete(ev.rb), view |-> delete(ev.view)]

\* ev.rb->release() under `if (ev.rb)`: ReadBuf is not part of these
\* sources, so whether release frees the object is left open (frees)
rb_release(ev, frees) ==
    [ev EXCEPT !.rb = IF frees THEN delete(@) ELSE @]

\* delete ev.view, lines 101 and 178: the pointer is not reset
delete_view(ev) == [ev EXCEPT !.view = delete(@)]

\* the copies a destructed vs_ev pointed to, with their numbers of frees
Gone(ev) ==
    {[kind |-> "rb", frees |-> ev.rb[i]] : i \in DOMAIN ev.rb}
       \cup {[kind |-> "view", frees |-> ev.view[i]] : i \in DOMAIN ev.view}

\* eq.push_back(vs_ev(r, ..., v)): the temporary is built, copied into the
\* queue and destructed
ev_push_back(h, r, v) ==
    LET temp == vs_ev_new(r, v) IN
    [h EXCEPT !.eq = Append(@, vs_ev_copy(temp)),
              !.gone = @ \cup Gone(vs_ev_destroy(temp))]

\* what handle_up is called with
UpKinds == {"eof", "empty_view", "to_waiter", "payload", "view"}

\* handle_up, lines 105 to 150: eof pushes vs_ev(0, 0, 0, 0, 0); the empty
\* view is pushed at line 128 and again at line 146; a payload copied to the
\* waiter pushes vs_ev(0, um, roff, len, 0); otherwise
\* vs_ev(rb, um, roff, 0, um->get_view()) is pushed
EvHandleUp ==
    \E kind \in UpKinds :
       /\ ~ev_heap.destroyed
       /\ ev_heap.n_up < MaxEvUps
       /\ LET h == [ev_heap EXCEPT !.n_up = @ + 1] IN
          ev_heap' =
             CASE kind = "eof" -> ev_push_back(h, FALSE, FALSE)
               [] kind = "empty_view" ->
                     ev_push_back(ev_push_back(h, FALSE, TRUE), FALSE, TRUE)
               [] kind = "to_waiter" -> ev_push_back(h, FALSE, FALSE)
               [] kind = "payload" -> ev_push_back(h, TRUE, FALSE)
               [] kind = "view" -> ev_push_back(h, FALSE, TRUE)
       /\ UNCHANGED OutsideEvHeap

\* release_event, lines 167 to 179: ev is a copy of the front, pop_front
\* destructs the queued one, the copy's buffer is released and its view
\* deleted, and ev is destructed at the end of the scope
ev_release_event(h, frees) ==
    LET ev == vs_ev_copy(h.eq[1]) IN
    [h EXCEPT !.eq = Tail(@),
              !.gone = @ \cup Gone(vs_ev_destroy(h.eq[1]))
                         \cup Gone(vs_ev_destroy(
                                      delete_view(rb_release(ev, frees))))]

\* gcs_gcomm_recv, lines 319 to 389: wait_event returns a copy of the front
\* (line 162), which is destructed when recv returns; the event is released
\* when it fitted the buffer
EvRecv ==
    \E fits \in BOOLEAN, frees \in BOOLEAN :
       /\ ~ev_heap.destroyed
       /\ ev_heap.eq # <<>>
       /\ LET wr == vs_ev_copy(ev_heap.eq[1])
              h == IF fits THEN ev_release_event(ev_heap, frees) ELSE ev_heap
          IN  ev_heap' = [h EXCEPT !.gone = @ \cup Gone(vs_ev_destroy(wr))]
       /\ UNCHANGED OutsideEvHeap

\* gcs_gcomm::~gcs_gcomm, lines 95 to 103, called by delete conn in
\* gcs_gcomm_destroy: the buffer of every queued event is released and its
\* view deleted, then the queue is destructed with its elements
EvDestroy ==
    \E frees \in [DOMAIN ev_heap.eq -> BOOLEAN] :
       /\ ~ev_heap.destroyed
       /\ ev_heap' =
            [ev_heap EXCEPT
               !.eq = <<>>,
               !.destroyed = TRUE,
               !.gone = @ \cup UNION
                  {Gone(vs_ev_destroy(delete_view(
                           rb_release(ev_heap.eq[i], frees[i])))) :
                     i \in DOMAIN ev_heap.eq}]
       /\ UNCHANGED OutsideEvHeap

EvHeapNext ==
    \/ EvHandleUp
    \/ EvRecv
    \/ EvDestroy

Init == MInit /\ GInit /\ FNone /\ SInit /\ AInit /\ IoInit /\ EqSyncInit /\ EvHeapInit

InitCreate == MInit /\ GInit /\ FCreateInit /\ SInit /\ AInit /\ IoInit /\ EqSyncInit /\ EvHeapInit

InitFifo == MInit /\ GInit /\ FInit /\ SInit /\ AInit /\ IoInit /\ EqSyncInit /\ EvHeapInit

\* a connected socket of either side
InitIO == MInit /\ GInit /\ FNone /\ SInit /\ AInitConnected /\ IoInit /\ EqSyncInit /\ EvHeapInit

\* a socket of either side
InitAsio ==
    MInit /\ GInit /\ FNone /\ SInit /\ (AInit \/ AInitAccepted) /\ IoInit /\ EqSyncInit /\ EvHeapInit

SpecMemStore == Init /\ [][MemNext]_vars

SpecGcomm == Init /\ [][GcommNext]_vars

SpecFifoCreate == InitCreate /\ [][CreateNext]_vars

SpecFifo == InitFifo /\ [][FifoNext]_vars

SpecGcommSend == Init /\ [][SendNext]_vars

SpecAsio == InitAsio /\ [][AsioNext]_vars

SpecAsioIO == InitIO /\ [][IONext]_vars

SpecEqSync == Init /\ [][EqSyncNext]_vars

SpecEvHeap == Init /\ [][EvHeapNext]_vars

\* the tests keep calling run_one, and the time of a timer comes
SpecReactor ==
    /\ Init /\ [][ReactorNext]_vars
    /\ WF_vars(RunOneCall) /\ WF_vars(RunOneReturn) /\ WF_vars(TimerExpires)

\* the test keeps calling run_one while a read or a write is pending
SpecAsioIOFair ==
    InitIO /\ [][IONext]_vars /\ WF_vars(RunOneRead) /\ WF_vars(RunOneWrite)

\* the test keeps calling run_one while a handshake is pending
SpecAsioHandshake ==
    InitAsio /\ [][HandshakeNext]_vars /\ WF_vars(RunOneHandshake)


(***************************************************************************)
(* MemStore: properties                                                    *)
(***************************************************************************)
\* the allocated buffers that carry a global seqno
Ordered == {bh \in allocd_ : heap[bh].seqno_g # SEQNO_NONE}

\* the buffers seqno_lock protects: those at or above the locked seqno
Protected == {bh \in Ordered : heap[bh].seqno_g >= seqno_locked_}

\* C3, as stated: after seqno_lock(s) and until seqno_unlock(), no buffer
\* whose seqno_g is less than s is discarded.
C3_BelowLockKept ==
    [][(seqno_locked_ # SEQNO_MAX /\ m_last'.op \in {"discard", "free"})
         => \A bh \in Ordered :
               heap[bh].seqno_g < seqno_locked_ => bh \in allocd_']_vars

\* C3, amended: after seqno_lock(s) and until seqno_unlock(), no buffer
\* whose seqno_g is greater than or equal to s is discarded (no call other
\* than reset takes such a buffer out of the store).
C3_LockedKept ==
    [][(seqno_locked_ # SEQNO_MAX /\ m_last'.op # "reset")
         => \A bh \in Protected : bh \in allocd_']_vars

\* a discard went through under a lock, on a buffer below the locked seqno,
\* while a buffer at the locked seqno stays in the store
C3_Witness ==
    /\ m_last.op = "discard"
    /\ ~m_aborted
    /\ seqno_locked_ # SEQNO_MAX
    /\ m_last.hdr.seqno_g # SEQNO_NONE
    /\ m_last.hdr.seqno_g < seqno_locked_
    /\ Protected # {}

\* C4: with seqno_locked_ = X, a discard call leaves every seqno-assigned
\* buffer with seqno_g >= X allocated, with its header, counted in size_ and
\* found under its seqno in the index; a discard of a buffer whose seqno_g
\* is >= seqno_locked_ fails discard's assertion and discards nothing.
C4_DiscardRespectsLock ==
    [][m_last'.op = "discard"
         => /\ \A bh \in Protected :
                  /\ bh \in allocd_'
                  /\ heap'[bh] = heap[bh]
                  /\ heap[bh].seqno_g \in DOMAIN seqno2ptr_
                       => /\ heap[bh].seqno_g \in DOMAIN seqno2ptr_'
                          /\ seqno2ptr_'[heap[bh].seqno_g]
                               = seqno2ptr_[heap[bh].seqno_g]
            /\ size_' = size_ - (IF m_last'.bh \in allocd_'
                                 THEN 0 ELSE heap[m_last'.bh].size)
            /\ heap[m_last'.bh].seqno_g >= seqno_locked_
                 => m_aborted' /\ allocd_' = allocd_ /\ size_' = size_]_vars

\* discard was called on a released buffer at or above the locked seqno
C4_Witness ==
    /\ m_last.op = "discard"
    /\ m_aborted
    /\ BH_is_released(m_last.hdr)
    /\ m_last.hdr.seqno_g # SEQNO_NONE
    /\ m_last.hdr.seqno_g >= seqno_locked_
    /\ m_last.bh \in allocd_

\* C5, as stated: after discard(bh) returns, bh is no longer in the
\* allocation set, size_ has decreased by bh->size, and the seqno -> ptr
\* index holds no entry that points to the discarded buffer.
C5_DiscardErasesIndex ==
    (m_last.op = "discard" /\ ~m_aborted)
      => /\ m_last.bh \notin allocd_
         /\ size_ = m_last.size_ - m_last.hdr.size
         /\ \A s \in DOMAIN seqno2ptr_ : seqno2ptr_[s] # BH2ptr(m_last.bh)

\* C6: free(bh) on a buffer with an assigned seqno leaves the buffer in the
\* allocation set, with its header and payload, and size_ unchanged; free
\* of a buffer with seqno_g = NONE reclaims it at once.
C6_FreeKeepsOrdered ==
    (m_last.op = "free" /\ ~m_aborted)
      => IF m_free.hdr.seqno_g # SEQNO_NONE
         THEN /\ m_last.bh \in allocd_
              /\ size_ = m_free.size_
              /\ heap[m_last.bh] = m_free.hdr
              /\ payload[m_last.bh] = m_free.payload
         ELSE /\ m_last.bh \notin allocd_
              /\ size_ = m_free.size_ - m_free.hdr.size

\* free has returned for a released buffer that carries a seqno
C6_Witness ==
    /\ m_last.op = "free"
    /\ ~m_aborted
    /\ m_last.hdr.seqno_g # SEQNO_NONE
    /\ BH_is_released(m_last.hdr)
    /\ m_last.hdr.seqno_g < seqno_locked_
    /\ m_last.bh \in allocd_

\* C7: for a buffer b with an assigned seqno, free(b) followed by
\* repossess(b) leaves b's payload and header size unchanged, b in the
\* allocation set, size_ unchanged, and b found by seqno lookup.
C7_FreeRepossess ==
    (m_last.op = "repossess" /\ ~m_aborted /\ m_free.bh = m_last.bh)
      => LET b == m_last.bh IN
         /\ payload[b] = m_free.payload
         /\ heap[b].size = m_free.hdr.size
         /\ b \in allocd_
         /\ size_ = m_free.size_
         /\ heap[b].seqno_g \in DOMAIN seqno2ptr_
         /\ seqno2ptr_[heap[b].seqno_g] = BH2ptr(b)

\* repossess(b) has returned right after free(b), b written and ordered
C7_Witness ==
    /\ m_last.op = "repossess"
    /\ ~m_aborted
    /\ m_free.bh = m_last.bh
    /\ payload[m_last.bh] # 0
    /\ heap[m_last.bh].seqno_g # SEQNO_NONE

\* C8: when realloc(ptr, size) returns null for ptr # null and size > 0,
\* the original buffer is still in the allocation set, its header (size
\* included) and payload are as before, and size_ is unchanged.
C8_ReallocFailureKeepsBuffer ==
    (/\ m_last.op = "realloc"
     /\ ~m_aborted
     /\ m_last.bh # NULL
     /\ m_last.size > 0
     /\ m_last.ret = NULL)
      => /\ m_last.bh \in allocd_
         /\ heap[m_last.bh] = m_last.hdr
         /\ size_ = m_last.size_

\* realloc returned null although the new size fits: ::realloc failed
C8_Witness ==
    /\ m_last.op = "realloc"
    /\ ~m_aborted
    /\ m_last.bh # NULL
    /\ m_last.size > m_last.hdr.size
    /\ m_last.ret = NULL
    /\ m_last.size <= max_size_
    /\ m_last.size_ + (m_last.size - m_last.hdr.size) <= max_size_

\* by how much the last malloc / realloc call asked size_ to grow
Growth ==
    IF m_last.bh = NULL THEN m_last.size ELSE m_last.size - m_last.hdr.size

\* C9: as long as set_max_size has not been called, size_ <= max_size_;
\* a malloc or realloc that would take size_ above max_size_ returns null
\* and leaves size_ alone.
C9_SizeBounded ==
    /\ ~max_size_set => size_ <= max_size_
    /\ (/\ ~max_size_set
        /\ m_last.op \in {"malloc", "realloc"}
        /\ ~m_aborted
        /\ m_last.size_ + Growth > max_size_)
         => m_last.ret = NULL /\ size_ = m_last.size_

\* a malloc was refused for lack of space in a store that was never resized
C9_Witness ==
    /\ ~max_size_set
    /\ m_last.op = "malloc"
    /\ m_last.size <= max_size_
    /\ m_last.size_ + m_last.size > max_size_
    /\ m_last.ret = NULL
    /\ size_ > 0

\* C10: a successful malloc(size) returns the address right after a header
\* with size = size, seqno_g = NONE, flags = 0, store = in-memory and ctx =
\* the store; the header is in the allocation set and size_ has grown by
\* exactly size.
C10_MallocHeader ==
    (m_last.op = "malloc" /\ m_last.ret # NULL)
      => /\ m_last.ret - BH_size \in allocd_
         /\ heap[m_last.ret - BH_size] =
              [size |-> m_last.size, seqno_g |-> SEQNO_NONE, flags |-> 0,
               store |-> BUFFER_IN_MEM, ctx |-> ThisStore]
         /\ size_ = m_last.size_ + m_last.size

\* a malloc has succeeded in a store that already held a buffer
C10_Witness ==
    /\ m_last.op = "malloc"
    /\ m_last.ret # NULL
    /\ m_last.size_ > 0


\* the sum of the header sizes of the buffers in a set of addresses
RECURSIVE SumSizes(_)
SumSizes(S) ==
    IF S = {} THEN 0
    ELSE LET a == CHOOSE x \in S : TRUE IN heap[a].size + SumSizes(S \ {a})

\* the step in which a call of op on the store returns
MemCall(op) ==
    /\ m_last'.op = op
    /\ ~m_aborted'
    /\ (m_last' # m_last \/ size_' # size_ \/ allocd_' # allocd_)

\* C35: size_ is always the sum of the header sizes of the buffers in the
\* allocation set; a malloc that returns a buffer adds size, a realloc that
\* returns a buffer adds new size minus old size (also when it shrinks), a
\* discard subtracts the buffer's size and takes it out of the set, and
\* reset leaves size_ = 0 and the set empty.
C35_SizeIsSum ==
    /\ [](size_ = SumSizes(allocd_))
    /\ [][/\ (MemCall("malloc") /\ m_last'.ret # NULL) =>
                size_' = size_ + m_last'.size
          /\ (MemCall("realloc") /\ m_last'.ret # NULL
                /\ m_last'.bh # NULL) =>
                /\ size_' = size_ + m_last'.size - m_last'.hdr.size
                /\ heap'[ptr2BH(m_last'.ret)].size = m_last'.size
          /\ (MemCall("realloc") /\ m_last'.ret # NULL
                /\ m_last'.bh = NULL) =>
                size_' = size_ + m_last'.size
          /\ MemCall("discard") =>
                /\ size_' = size_ - m_last'.hdr.size
                /\ allocd_' = allocd_ \ {m_last'.bh}
          /\ MemCall("reset") => (size_' = 0 /\ allocd_' = {})]_vars

\* realloc has just shrunk one of two buffers of the store
C35_Witness ==
    /\ m_last.op = "realloc"
    /\ m_last.ret # NULL
    /\ m_last.bh # NULL
    /\ m_last.size < m_last.hdr.size
    /\ size_ = m_last.size_ + m_last.size - m_last.hdr.size
    /\ Cardinality(allocd_) >= 2
    /\ ~m_aborted


(***************************************************************************)
(* The gcomm backend: properties                                           *)
(***************************************************************************)
\* an event that carries a payload, queued as a copy or copied to a waiter
IsPayload(ev) == ev.rb # NoRb \/ ev.msg_size > 0

\* C1, as stated: successive successful gcs_gcomm_recv calls return the
\* events handle_up was called with, in exactly the order of those calls:
\* the i-th event recv releases is the one of the i-th handle_up call.
C1_ExactOrder == \A i \in 1..Len(received) : received[i] = i

\* C2, as stated: when gcs_gcomm_recv returns r, 0 < r <= len, for a
\* payload, the r bytes of that payload are in the buffer passed to that
\* call and msg_type is the user type the payload was delivered with.
C2_PayloadInBuffer ==
    [][(n_received' = n_received + 1 /\ IsPayload(g_last'.ev))
         => /\ g_last'.ret > 0
            /\ g_last'.ret <= g_last'.len
            /\ bufs'[g_last'.buf] = [kind |-> "payload",
                                     data |-> g_last'.ev.up,
                                     n |-> g_last'.ret]
            /\ g_last'.msg_type = g_last'.ev.um.user_type]_vars


(***************************************************************************)
(* The FIFO: properties                                                    *)
(***************************************************************************)
IsPow2(n) == \E k \in 0..WordBits : n = Pow2(k)

\* the smallest power of two that is >= length
SmallestPow2(length) ==
    CHOOSE n \in 1..Pow2(WordBits) :
        /\ IsPow2(n)
        /\ n >= length
        /\ \A m \in 1..(n - 1) : ~(IsPow2(m) /\ m >= length)

\* a FIFO as C11 describes it for a requested length
FreshFifo(f, length) ==
    /\ f # NoFifo
    /\ f.length = SmallestPow2(length)
    /\ f.mask = f.length - 1
    /\ f.used = 0
    /\ f.closed = FALSE

\* C11, as stated: for length >= 1 and item_size >= 1 the call of create
\* returns a FIFO of the smallest power-of-two capacity >= length, with
\* mask = capacity - 1, used = 0, closed = false; for length < 1 or
\* item_size < 1 it returns NULL.
C11_CreateAlwaysReturnsFifo ==
    create_pc # "idle" =>
        /\ create_pc = "returned"
        /\ IF create_args.length >= 1 /\ create_args.item_size >= 1
           THEN FreshFifo(fifo, create_args.length)
           ELSE fifo = NoFifo

\* C11, what holds of the calls that return: for length >= 1 and
\* item_size >= 1 the FIFO is as C11 describes it when the capacity is at
\* most GU_LONG_MAX and both allocations succeed, and NULL is returned
\* otherwise; for length < 1 or item_size < 1 NULL is returned.
C11_CreateReturnsFifoOrNull ==
    create_pc = "returned" =>
        IF /\ create_args.length >= 1
           /\ create_args.item_size >= 1
           /\ SmallestPow2(create_args.length) <= GU_LONG_MAX
           /\ create_args.calloc_ok
           /\ create_args.malloc_ok
        THEN FreshFifo(fifo, create_args.length)
        ELSE fifo = NoFifo

\* create has returned a FIFO of a capacity above the requested length
C11_Witness ==
    /\ create_pc = "returned"
    /\ fifo # NoFifo
    /\ create_args.length = 3
    /\ fifo.length = 4
    /\ fifo.mask = 3


\* the step in which a call of gcs_fifo_lite_close runs from its lock to
\* its unlock
IsClose == \E t \in Closers : f_pc[t] = "lock" /\ f_pc'[t] = "idle"

\* C12: gcs_fifo_lite_close runs while no other thread holds the lock,
\* sets closed, wakes every thread blocked on put_cond or get_cond, leaves
\* head, tail, used and the queued items unchanged, and a close of a FIFO
\* an earlier close has closed changes nothing in it.
C12_CloseWakesAll ==
    [][IsClose =>
         /\ lock.owner = NoThread
         /\ fifo'.closed
         /\ put_cond'.waiters = {}
         /\ get_cond'.waiters = {}
         /\ \A t \in put_cond.waiters \cup get_cond.waiters :
               f_pc'[t] = "relock"
         /\ fifo'.head = fifo.head
         /\ fifo'.tail = fifo.tail
         /\ fifo'.used = fifo.used
         /\ fifo'.queue = fifo.queue
         /\ (fifo.closed /\ ~fifo.destroyed) =>
               /\ fifo' = fifo
               /\ put_cond' = put_cond
               /\ get_cond' = get_cond
               /\ lock' = lock]_vars

\* a close has found the FIFO full and both producers blocked, and has
\* woken them
C12_Witness ==
    /\ fifo.closed
    /\ ~fifo.destroyed
    /\ fifo.used = fifo.length
    /\ fifo.put_wait = 0
    /\ \A t \in Producers : f_pc[t] = "relock"
    /\ \A t \in Closers : f_pc[t] = "idle"


\* the step in which gcs_fifo_lite_destroy frees the queue and the FIFO
IsFree == f_freed' = f_freed + 1

\* C13, as stated: when gcs_fifo_lite_destroy frees the FIFO it is closed,
\* no thread is blocked on put_cond or get_cond and no thread is waiting
\* for the lock or about to take it again after a wait.
C13_FreeAfterWaitersLeft ==
    [][IsFree =>
         /\ fifo.closed
         /\ put_cond.waiters = {}
         /\ get_cond.waiters = {}
         /\ \A t \in Threads : f_pc[t] \notin {"wait", "lock", "relock"}]_vars


\* the event handle_up queues for a broken connection: no buffer, no size,
\* no view
IsSentinel(ev) == ev.rb = NoRb /\ ev.msg_size = 0 /\ ev.view = NoView

\* C14: once the sentinel of a broken connection is at the head of the
\* queue the event loop is interrupted, the queue no longer changes (the
\* sentinel is never removed), no recv call blocks and every return of
\* gcs_gcomm_recv is -ENOTCONN.
C14_SentinelStays ==
    [][(eq # <<>> /\ IsSentinel(eq[1])) =>
         /\ interrupted
         /\ eq' = eq
         /\ r_pc = "idle" => r_pc' = "idle"
         /\ g_last' # g_last => g_last'.ret = -ENOTCONN]_vars

\* recv has consumed an event queued before the sentinel and has then
\* returned -ENOTCONN for the sentinel, which is still queued
C14_Witness ==
    /\ n_received >= 1
    /\ eq # <<>>
    /\ IsSentinel(eq[1])
    /\ g_last.ret = -ENOTCONN
    /\ g_last.ev = eq[1]
    /\ ~terminate


\* C15: once terminate is set conn_run comes out of at most one more poll;
\* gcs_gcomm_close returns, with 0, only when conn_run has ended; and a
\* gcs_gcomm_recv call started while terminate is set does not block and
\* returns -ENOTCONN.
C15_CloseStopsThread ==
    [][/\ polls_since_term' <= 1
       /\ c_pc' = "returned" => (io_pc' = "exited" /\ c_ret' = 0)
       /\ (terminate /\ r_pc = "idle") =>
             /\ r_pc' = "idle"
             /\ g_last' # g_last => g_last'.ret = -ENOTCONN]_vars

\* close has returned after conn_run came out of one more poll, closed the
\* transport and ended, and a recv call made since has returned -ENOTCONN
C15_Witness ==
    /\ c_pc = "returned"
    /\ c_ret = 0
    /\ io_pc = "exited"
    /\ polls_since_term = 1
    /\ vs_closes = 1
    /\ g_last.ret = -ENOTCONN
    /\ g_last.ev = NoEv
    /\ n_received >= 1


\* the step in which gcs_gcomm_recv delivers a view: the event is a view
\* and is released
DeliversView == n_received' = n_received + 1 /\ g_last'.ev.view # NoView

\* the 0-based position of uuid in a member list
PositionOf(uuid, members) ==
    (CHOOSE i \in 1..Len(members) : members[i] = uuid) - 1

\* C16: the component message recv builds for a delivered view has primary
\* set iff the view is V_PRIM, as many members as the view, the member ids
\* in the view's order and my_idx the position of the local UUID; for the
\* empty view it is the leave message; the whole message is in the buffer.
C16_ComponentOfView ==
    [][DeliversView =>
         LET v == g_last'.ev.view
             c == comp_msg'
         IN  /\ IF v.members # <<>>
                THEN /\ c.primary = (v.type = V_PRIM)
                     /\ c.memb_num = Len(v.members)
                     /\ c.memb = v.members
                     /\ c.my_idx = PositionOf(SelfUUID, v.members)
                ELSE c = gcs_comp_msg_leave
             /\ g_last'.msg_type = GCS_MSG_COMPONENT
             /\ bufs'[g_last'.buf] =
                   [kind |-> "comp", data |-> c,
                    n |-> gcs_comp_msg_size(c)]]_vars

\* recv has delivered a primary view of two members in which the local
\* node is the second
C16_Witness ==
    /\ g_last.ev.view.type = V_PRIM
    /\ Len(g_last.ev.view.members) = 2
    /\ g_last.ret <= g_last.len
    /\ comp_msg.primary
    /\ comp_msg.memb_num = 2
    /\ comp_msg.my_idx = 1
    /\ n_received >= 1


\* the step in which gcs_gcomm_recv processes a payload event
ProcessesPayload == g_last' # g_last /\ IsPayload(g_last'.ev)

\* C17: whenever recv processes a payload event its source is in comp_map
\* (the lookup assertion holds), is a member of the view recv processed
\* last, and sender_idx is its position in that view's member list.
C17_SenderInView ==
    [][ProcessesPayload =>
         LET source == g_last'.ev.um.source
             members == comp_msg.memb
         IN  /\ source \in DOMAIN comp_map
             /\ source \in Range(members)
             /\ g_last'.sender_idx = PositionOf(source, members)]_vars

\* recv has delivered a payload sent by the second member of the view
C17_Witness ==
    /\ IsPayload(g_last.ev)
    /\ g_last.ret <= g_last.len
    /\ g_last.sender_idx = 1
    /\ comp_msg.memb_num = 2
    /\ g_last.ev.um.source = comp_msg.memb[2]


\* the step in which a call of gcs_gcomm_send returns
SendReturns == s_last' # s_last

\* C18: gcs_gcomm_send returns -EBADFD without a connection, else
\* -ENOTCONN without a transport, else -EINVAL for msg_type < 0 or
\* msg_type >= 0xff, all three without a pass_down; otherwise it passes the
\* buffer down once with msg_type as the user type and returns len,
\* the negated error code, or -ENOTCONN when pass_down throws.
C18_SendChecksInOrder ==
    [][SendReturns =>
         LET r == s_last'
             t == r.msg_type
         IN  IF b_conn = "null"
             THEN r.ret = -EBADFD /\ s_down' = <<>>
             ELSE IF b_vs = "null"
             THEN r.ret = -ENOTCONN /\ s_down' = <<>>
             ELSE IF t < 0 \/ t >= 255
             THEN r.ret = -EINVAL /\ s_down' = <<>>
             ELSE /\ s_down' = <<[len |-> r.len,
                                  vdm |-> [user_type |-> t]]>>
                  /\ r.down.called
                  /\ r.down.threw => r.ret = -ENOTCONN
                  /\ (~r.down.threw /\ r.down.err = 0) => r.ret = r.len
                  /\ (~r.down.threw /\ r.down.err # 0) =>
                        r.ret = -r.down.err]_vars

\* a send with the largest valid msg_type has been passed down and has
\* returned its length
C18_Witness ==
    /\ s_last.returned
    /\ s_last.msg_type = 254
    /\ s_last.len = MaxSendLen
    /\ s_last.ret = MaxSendLen
    /\ Len(s_down) = 1


\* how many times the handler's write_handler, connect_handler was invoked
WriteInvocations(h) ==
    Cardinality({i \in 1..Len(h.invocations) : h.invocations[i].op = "write"})
ConnectInvocations(h) ==
    Cardinality({i \in 1..Len(h.invocations) :
                    h.invocations[i].op = "connect"})

\* an accepted async_write has not had its write handler invoked yet
WriteOutstanding == a_acc.n > WriteInvocations(a_handler)

\* the step is a call of async_write
CallsAsyncWrite == a_call'.n = a_call.n + 1

\* C19: async_write on a connected socket whose earlier async_write has
\* not had its write handler invoked fails with EBUSY and leaves the write
\* in flight as it is; that write, when it completes without an error of
\* the engine, reports the full byte count of its buffers.
C19_WriteTwiceBusy ==
    [][/\ (CallsAsyncWrite /\ WriteOutstanding) =>
             /\ a_call'.errno = EBUSY
             /\ a_wctx' = a_wctx
             /\ a_acc' = a_acc
             /\ a_handler' = a_handler
       /\ (/\ WriteOutstanding
           /\ a_handler'.invocations # a_handler.invocations
           /\ a_engine.next_result \notin {"eof", "error"}) =>
             /\ a_handler'.invocations =
                   Append(a_handler.invocations,
                          [op |-> "write", n |-> a_acc.len])
             /\ a_handler'.bytes_written =
                   a_handler.bytes_written + a_acc.len]_vars

\* the second of two calls failed with EBUSY and the first write has
\* completed with its own length
C19_Witness ==
    /\ a_call = [n |-> 2, len |-> 1, errno |-> EBUSY]
    /\ a_acc = [n |-> 1, len |-> MaxWriteLen]
    /\ a_handler.invocations =
          <<[op |-> "connect", n |-> 0], [op |-> "write", n |-> MaxWriteLen]>>
    /\ a_handler.bytes_written = MaxWriteLen
    /\ a_handler.last_error_code = NoError

\* the step is a call of client_handshake that returns success, after a
\* first call that returned want_read
SucceedsAfterWantRead ==
    /\ Len(a_hs') = Len(a_hs) + 1
    /\ Len(a_hs) >= 1
    /\ a_hs[1] = "want_read"
    /\ a_hs'[Len(a_hs')] = "success"

\* C20: when the client handshake of an async_connect first returns
\* want_read and later succeeds, the succeeding call comes after the peer
\* has written, and connect_handler is invoked then, with no error, and
\* never a second time.
C20_HandshakeWantRead ==
    [][/\ SucceedsAfterWantRead =>
             /\ a_rcv > 0
             /\ ~a_handler.connect_handler_called
             /\ a_handler'.connect_handler_called
             /\ a_handler'.last_error_code = NoError
             /\ ConnectInvocations(a_handler') = 1
       /\ a_handler.connect_handler_called =>
             ConnectInvocations(a_handler') = 1]_vars

\* the handshake returned want_read, then success, and the handler has
\* been told of the connection
C20_Witness ==
    /\ a_hs = <<"want_read", "success">>
    /\ a_sock.state = "connected"
    /\ a_handler.invocations = <<[op |-> "connect", n |-> 0]>>
    /\ a_handler.connect_handler_called
    /\ a_rcv > 0


\* the step is a call of the handshake function of the engine
CallsHandshake == Len(a_hs') = Len(a_hs) + 1

\* how often the engine's handshake function of the socket's own side and
\* of the other side has been called
OwnHandshakes(e) ==
    IF a_role = "client" THEN e.count_client_handshake_called
    ELSE e.count_server_handshake_called
OtherHandshakes(e) ==
    IF a_role = "client" THEN e.count_server_handshake_called
    ELSE e.count_client_handshake_called

\* the handshake has been called n times and has asked for status last
HandshakeWants(n, status) == Len(a_hs) = n /\ a_hs[n] = status

\* C21: after client_handshake or server_handshake has returned want_read
\* (want_write) the socket calls the same function again, and no other,
\* once the socket is readable (writable) and not before; this holds for
\* the connecting and for the accepted socket.
C21_HandshakeAgain ==
    /\ [][CallsHandshake =>
            /\ OwnHandshakes(a_engine') = OwnHandshakes(a_engine) + 1
            /\ OtherHandshakes(a_engine') = OtherHandshakes(a_engine)
            /\ Len(a_hs) >= 1 =>
                  /\ a_hs[Len(a_hs)] \in {"want_read", "want_write"}
                  /\ a_hs[Len(a_hs)] = "want_read" => a_rcv > 0]_vars
    /\ \A n \in 1..(MaxHandshakes - 1) :
          /\ (HandshakeWants(n, "want_read") /\ a_rcv > 0) ~> (Len(a_hs) > n)
          /\ HandshakeWants(n, "want_write") ~> (Len(a_hs) > n)

\* the accepted socket's server_handshake was called again after want_read
\* and after want_write
C21_Witness ==
    /\ a_role = "accepted"
    /\ a_hs = <<"want_read", "want_write", "success">>
    /\ a_engine.count_server_handshake_called = 3
    /\ a_engine.count_client_handshake_called = 0


\* the client handshake has returned eof or error in its last call
HandshakeFailed ==
    /\ a_role = "client"
    /\ Len(a_hs) >= 1
    /\ a_hs[Len(a_hs)] \in {"eof", "error"}

\* C22: when a call of the client handshake returns eof or error,
\* connect_handler is invoked in that step with an error code for which
\* is_eof() holds, or whose value is the engine's last_error() (the
\* next_error the test injected); the handshake is never called again, so
\* that client_handshake has been called once when the first call failed
\* and twice when the call after a want_write failed.
C22_HandshakeFails ==
    [][/\ (CallsHandshake /\ HandshakeFailed') =>
             /\ a_handler'.invocations =
                   Append(a_handler.invocations, [op |-> "connect", n |-> 0])
             /\ a_handler'.connect_handler_called
             /\ a_hs'[Len(a_hs')] = "eof" => a_handler'.last_error_code.is_eof
             /\ a_hs'[Len(a_hs')] = "error" =>
                   /\ ~a_handler'.last_error_code.is_eof
                   /\ a_handler'.last_error_code.value = a_engine'.last_error
                   /\ a_handler'.last_error_code.value = a_engine.next_error
       /\ HandshakeFailed =>
             /\ a_hs' = a_hs
             /\ a_engine'.count_client_handshake_called =
                   a_engine.count_client_handshake_called
       /\ a_role = "client" =>
             a_engine'.count_client_handshake_called = Len(a_hs')]_vars

\* the client handshake failed with EPIPE in the call after a want_write
C22_Witness ==
    /\ a_role = "client"
    /\ a_hs = <<"want_write", "error">>
    /\ a_engine.count_client_handshake_called = 2
    /\ a_handler.connect_handler_called
    /\ a_handler.last_error_code = EngineError(EPIPE)
    /\ a_sock.state = "failed"

\* the step invokes the read handler
ReadHandlerFires ==
    /\ Len(a_handler'.invocations) > Len(a_handler.invocations)
    /\ a_handler'.invocations[Len(a_handler'.invocations)].op = "read"

\* the status the engine's read reports in the current state
ReadStatus ==
    map_return_value(a_engine, recv(left_to_read(a_rctx)), "want_read",
                     FALSE).status

\* C23 as stated: after the peer has closed, the next async_read completion
\* carries a non-zero error code, which is eof when the engine reports eof
\* (an engine that reports error with a last_error() of zero is left aside)
C23_CloseThenError ==
    [][(/\ a_peer_closed
        /\ ReadHandlerFires
        /\ ReadStatus = "error" => a_engine.next_error # 0) =>
          /\ a_handler'.last_error_code.value # 0
          /\ ReadStatus = "eof" => a_handler'.last_error_code.is_eof]_vars

\* C23: after the peer has closed and the bytes it sent before have been read,
\* a completion of async_read comes only from a status eof or error of the
\* engine; the engine reports eof at the end of the stream unless another
\* result was injected; the handler gets the non-zero eof code for eof and
\* the engine's last_error() for error
C23_DrainedCloseThenEof ==
    [][(a_peer_closed /\ a_rcv = 0 /\ ReadHandlerFires) =>
          /\ ReadStatus \in {"eof", "error"}
          /\ a_engine.next_result = "success" => ReadStatus = "eof"
          /\ ReadStatus = "eof" =>
                /\ a_handler'.last_error_code.is_eof
                /\ a_handler'.last_error_code.value # 0
          /\ ReadStatus = "error" =>
                /\ ~a_handler'.last_error_code.is_eof
                /\ a_handler'.last_error_code.value = a_engine'.last_error
                /\ a_handler'.last_error_code.value = a_engine.next_error]_vars

\* the peer closed, the engine found the end of the stream by itself and the
\* read handler got eof
C23_Witness ==
    /\ a_peer_closed
    /\ a_reads.n = 1
    /\ a_engine.next_result = "success"
    /\ a_engine.count_read_called = 1
    /\ a_handler.invocations =
          <<[op |-> "connect", n |-> 0], [op |-> "read", n |-> 0]>>
    /\ a_handler.last_error_code = EofError
    /\ a_sock.state = "closed"

\* the step is a call of the engine's read
CallsRead == a_engine'.count_read_called = a_engine.count_read_called + 1

\* the bytes async_read has in its buffer after this call of the engine's read
ReadSoFar == a_rctx.transferred + recv(left_to_read(a_rctx))

CallsWrite == a_engine'.count_write_called = a_engine.count_write_called + 1

\* the step invokes the write handler
WriteHandlerFires ==
    /\ Len(a_handler'.invocations) > Len(a_handler.invocations)
    /\ a_handler'.invocations[Len(a_handler'.invocations)].op = "write"

\* the status the engine's write reports in the current state: it is the
\* same for every count of bytes that send accepts
WriteStatus ==
    map_return_value(a_engine,
                     IF a_wctx.size = a_wctx.transferred THEN 0 ELSE 1,
                     "want_write", FALSE).status

\* the handler got the code of an eof or an error of the engine
FailureReported(status) ==
    /\ status = "eof" => a_handler'.last_error_code.is_eof
    /\ status = "error" =>
          /\ ~a_handler'.last_error_code.is_eof
          /\ a_handler'.last_error_code.value = a_engine'.last_error
          /\ a_handler'.last_error_code.value = a_engine.next_error

\* C25: when the engine's read or write returns error, the read or write
\* handler is invoked in that step with the engine's last_error(); when it
\* returns eof, with a code for which is_eof() holds; after either, the
\* socket has nothing outstanding for the operation and the engine's read and
\* write are not called again
C25_EngineFailure ==
    [][/\ (CallsRead /\ ReadStatus \in {"eof", "error"}) =>
             /\ ReadHandlerFires
             /\ FailureReported(ReadStatus)
             /\ a_rctx'.wait = "none" /\ a_rctx'.size = 0
             /\ a_sock'.state = "closed"
       /\ (CallsWrite /\ WriteStatus \in {"eof", "error"}) =>
             /\ WriteHandlerFires
             /\ FailureReported(WriteStatus)
             /\ a_wctx'.wait = "none" /\ a_wctx'.size = 0
             /\ a_sock'.state = "closed"
       /\ a_sock.state = "closed" =>
             /\ a_engine'.count_read_called = a_engine.count_read_called
             /\ a_engine'.count_write_called = a_engine.count_write_called
             /\ a_handler'.invocations = a_handler.invocations]_vars

\* the engine's first read returned error with EPIPE and the read handler got
\* EPIPE
C25_Witness ==
    /\ a_engine.next_result = "error"
    /\ a_engine.next_error = EPIPE
    /\ a_engine.last_error = EPIPE
    /\ a_engine.count_read_called = 1
    /\ a_reads.n = 1
    /\ a_handler.invocations[Len(a_handler.invocations)].op = "read"
    /\ a_handler.last_error_code = EngineError(EPIPE)
    /\ a_sock.state = "closed"

\* the socket is readable
Readable == a_rcv > 0 \/ a_peer_closed

\* the read of a connected socket waited for wait, the socket is readable or
\* writable as that asks, and the engine's read can be called
ReadWaits(wait) ==
    /\ a_sock.state = "connected"
    /\ a_rctx.wait = wait
    /\ wait = "read" => Readable
    /\ recv_returns(left_to_read(a_rctx))
    /\ a_engine.count_read_called < MaxEngineReads

\* the write of a connected socket waited for wait, the socket is readable
\* or writable as that asks, and the engine's write can be called
WriteWaits(wait) ==
    /\ a_sock.state = "connected"
    /\ a_wctx.wait = wait
    /\ wait = "read" => Readable
    /\ a_engine.count_write_called < MaxEngineWrites

RunOneReturns == io_service.run_one.running /\ ~io_service'.run_one.running

\* the place of completion k in the queue, 0 when it is not queued
QueuePlace(io, k) ==
    IF \E i \in 1..Len(io.queue) : io.queue[i] = k
    THEN CHOOSE i \in 1..Len(io.queue) : io.queue[i] = k
    ELSE 0

\* C27: every queued completion is surfaced to its handler by some run_one:
\* a return of run_one surfaces the completion at the head of the queue and
\* moves the others one place ahead, no other step moves a queued completion
\* back, so a completion at place p is surfaced by the p-th return of run_one
\* after it, and run_one returns as long as completions are queued; a timer
\* that is the only operation started is surfaced by the first run_one
C27_ReactorSurfaces ==
    /\ [][/\ RunOneReturns =>
                /\ io_service.queue # <<>>
                /\ io_service'.ops[Head(io_service.queue)] = "handled"
                /\ io_service'.queue = Tail(io_service.queue)
                /\ (/\ io_service.run_one.calls = 1
                    /\ io_service.ops["timer"] # "idle"
                    /\ \A k \in Completions \ {"timer"} :
                          io_service.ops[k] = "idle") =>
                      io_service'.ops["timer"] = "handled"
          /\ \A k \in Completions :
                /\ (io_service.ops[k] = "queued" /\ ~RunOneReturns) =>
                      /\ io_service'.ops[k] = "queued"
                      /\ QueuePlace(io_service', k) = QueuePlace(io_service, k)
                /\ io_service'.ops[k] = "handled" =>
                      \/ io_service.ops[k] = "handled"
                      \/ RunOneReturns /\ Head(io_service.queue) = k]_vars
    /\ \A k \in Completions :
          (io_service.ops[k] = "queued") ~> (io_service.ops[k] = "handled")
    /\ (io_service.ops["timer"] = "pending")
          ~> (io_service.ops["timer"] = "handled")

\* the test of the timer: the timer is the only operation started and the
\* first run_one has returned with its handler called
C27_Witness ==
    /\ io_service.run_one = [calls |-> 1, running |-> FALSE]
    /\ io_service.ops["timer"] = "handled"
    /\ \A k \in Completions \ {"timer"} : io_service.ops[k] = "idle"
    /\ io_service.queue = <<>>

\* C28: handle_up copies a payload into a receive buffer (and zeroes
\* waiter_buf, lines 139 to 143) only while the gcs_gcomm_recv call that
\* supplied the buffer is blocked in wait_event
C28_CopyWhileBlocked ==
    [][(waiter_buf # NULL /\ waiter_buf' = NULL) =>
          (r_pc = "wait" /\ r_buf = waiter_buf)]_vars

\* C29: when no handle_up call is in progress, the events appended to the
\* queue (those still queued and those released) are as many as the
\* handle_up calls made
C29_OneEventPerUp ==
    io_pc # "up_locked" => Len(eq) + n_received = n_up

\* C30: whenever the I/O thread or the receiver is about to use the event
\* queue, it holds the mutex
C30_EqUnderMutex ==
    /\ eq_sync.io \in IoAccessLines => eq_sync.mutex = "io"
    /\ eq_sync.rx \in RxAccessLines => eq_sync.mutex = "rx"

\* the step in which gcs_gcomm_recv, having found an event, returns
RecvProcesses == g_last' # g_last \/ n_received' # n_received

\* C31: a recv that returns more than len leaves the queue and n_received
\* as they were, with the event still at the head, and the next recv with
\* a buffer of at least that size takes that same event; a recv that
\* returns a non-negative value not above len removes exactly the head
\* event and adds one to n_received.
C31_ReleaseIffFits ==
    [][RecvProcesses =>
         LET r == g_last' IN
         /\ r.ret > r.len =>
               /\ eq' = eq
               /\ n_received' = n_received
               /\ eq' # <<>>
               /\ eq'[1] = r.ev
         /\ (r.ret >= 0 /\ r.ret <= r.len) =>
               /\ eq # <<>>
               /\ eq[1] = r.ev
               /\ eq' = Tail(eq)
               /\ n_received' = n_received + 1
         /\ (g_last.ret > g_last.len /\ r.len >= g_last.ret) =>
               /\ r.ev = g_last.ev
               /\ r.ret >= 0
               /\ r.ret <= r.len
               /\ n_received' = n_received + 1]_vars

\* an event was released earlier, and the last recv found the head event
\* larger than its buffer: the event is still at the head
C31_Witness ==
    /\ g_last.ret > g_last.len
    /\ n_received >= 1
    /\ eq # <<>>
    /\ eq[1] = g_last.ev

\* the byte size of what an event delivers: the payload's length, or the
\* size of the component message of its view
EventSize(ev) ==
    IF ev.rb # NoRb THEN ev.rb.len
    ELSE IF ev.msg_size > 0 THEN ev.msg_size
    ELSE gcs_comp_msg_size(new_comp(ev.view))

\* C32, as stated: a non-negative return value of gcs_gcomm_recv is the
\* byte size of the event it is about, payload or view, whatever len is.
C32_ReturnIsEventSize ==
    [][(RecvProcesses /\ g_last'.ret >= 0) =>
          g_last'.ret = EventSize(g_last'.ev)]_vars

\* C33, as stated: every buffer copy and every view copy made for a queued
\* event has been freed exactly once when the vs_ev that pointed to it is
\* gone, whether through release_event or through the destructor of the
\* backend object; and after the destructor no copy is left
C33_CopiesFreedOnce ==
    /\ \A copy \in ev_heap.gone : copy.frees = 1
    /\ ev_heap.destroyed => ev_heap.eq = <<>>

\* the step in which the poll of conn_run returns (line 403)
PollReturns == io_pc = "poll" /\ (io_pc' \in {"check", "exited"} \/ g_aborted')

\* the step in which conn_run finds terminate set at the head of its loop
LoopEndsOnTerminate == io_pc = "check" /\ io_pc' = "exited"

\* conn_run aborts iff poll returns a negative value with the event loop
\* not interrupted, and a failed poll with the loop interrupted ends the
\* thread with no abort and no close of the transport
AbortIffPollFails ==
    /\ (g_aborted' /\ ~g_aborted)
          <=> (PollReturns /\ poll_err' < 0 /\ ~interrupted)
    /\ (PollReturns /\ poll_err' < 0 /\ interrupted) =>
          /\ io_pc' = "exited"
          /\ ~g_aborted'
          /\ vs_closes' = vs_closes

\* C34, as stated: abort iff poll fails uninterrupted; a failed poll with
\* the loop interrupted ends the thread without abort and without close;
\* and when the loop ends because terminate was set the transport is
\* closed exactly once.
C34_ConnRunEnds ==
    [][/\ AbortIffPollFails
       /\ LoopEndsOnTerminate => vs_closes' = vs_closes + 1
       /\ vs_closes' <= 1]_vars

\* C34, amended: as above, but when the loop ends because terminate was
\* set the transport is closed exactly once if the event loop is not
\* interrupted and is not closed if it is.
C34_ConnRunEndsByLoop ==
    [][/\ AbortIffPollFails
       /\ LoopEndsOnTerminate =>
             vs_closes' = IF interrupted THEN vs_closes ELSE vs_closes + 1
       /\ vs_closes' <= 1]_vars

\* conn_run has ended on terminate with the event loop interrupted by a
\* broken connection, and the transport was not closed
C34_Witness ==
    /\ io_pc = "exited"
    /\ terminate
    /\ interrupted
    /\ poll_err = 0
    /\ vs_closes = 0
    /\ ~g_aborted

\* C36: gcs_fifo_lite_destroy does not reach abort(): whenever the
\* destroyer is about to destroy a condition variable that threads are
\* still blocked on, the waiter count of that condition is above zero,
\* whatever close calls and wake-ups came before.
C36_DestroyDoesNotAbort ==
    /\ ~f_aborted
    /\ \A d \in Destroyers :
          /\ (f_pc[d] = "put_cond" /\ cond_destroy(put_cond) # 0) =>
                fifo.put_wait > 0
          /\ (f_pc[d] = "get_cond" /\ cond_destroy(get_cond) # 0) =>
                fifo.get_wait > 0

\* the destroyer is about to destroy get_cond while a consumer is blocked
\* on it: pthread_cond_destroy fails and the count is above zero
C36_Witness ==
    \E d \in Destroyers :
       /\ f_pc[d] = "get_cond"
       /\ cond_destroy(get_cond) = EBUSY
       /\ fifo.get_wait > 0
       /\ put_cond.destroyed
       /\ ~f_aborted

\* C37, as stated: of overlapping gcs_fifo_lite_destroy calls at most one
\* frees the queue and the FIFO; a call that goes on from gu_mutex_lock
\* after destroyed was set returns -EALREADY and leaves the FIFO as it is;
\* destroy(NULL) returns -EINVAL.
C37_OneDestroyerFrees ==
    [][/\ f_freed' <= 1
       /\ \A d \in Destroyers :
             /\ (f_pc[d] = "lock" /\ fifo.destroyed
                   /\ f_pc'[d] # f_pc[d]) =>
                   /\ f_pc'[d] = "done"
                   /\ f_ret'[d] = -EALREADY
                   /\ fifo' = fifo
                   /\ f_freed' = f_freed
             /\ (f_pc[d] = "idle" /\ f_pc'[d] = "done") =>
                   f_ret'[d] = -EINVAL]_vars

\* C38: gcs_fifo_lite_destroy frees the queue, and returns 0, only with
\* used = 0; while items remain the destroyer stays in the loop of lines
\* 104 to 113, giving up the lock before it looks again; and only a
\* consumer's pop lowers used, so with no consumer the call does not return.
C38_FreeWhenEmpty ==
    [][/\ IsFree => (fifo.used = 0 /\ fifo'.used = 0)
       /\ \A d \in Destroyers :
             /\ (f_pc[d] # "done" /\ f_pc'[d] = "done" /\ f_ret'[d] = 0) =>
                   fifo.used = 0
             /\ (f_pc[d] \in {"drain", "sleep"} /\ fifo.used # 0) =>
                   f_pc'[d] \in {"drain", "sleep"}
             /\ (f_pc[d] = "drain" /\ fifo.used # 0
                   /\ f_pc'[d] # f_pc[d]) =>
                   (f_pc'[d] = "sleep" /\ lock'.owner = NoThread)
       /\ fifo'.used < fifo.used =>
             \E t \in Consumers :
                f_pc[t] = "reading" /\ f_pc'[t] = "idle"]_vars

\* the destroyer has found items in the FIFO and released the lock for the
\* consumers
C38_Witness ==
    \E d \in Destroyers :
       /\ f_pc[d] = "sleep"
       /\ fifo.destroyed
       /\ fifo.used > 0
       /\ lock.owner = NoThread
       /\ f_freed = 0

\* C39, as stated: a call of gcs_fifo_lite_create that returns gives NULL
\* whenever capacity times item_size, as a number, is above the largest
\* unsigned long, so the queue of a FIFO it returns has exactly
\* capacity * item_size bytes.
C39_NoWrapOfQueueSize ==
    create_pc = "returned" =>
        LET l == real_length(1, create_args.length) IN
        /\ (create_args.length >= 1 /\ create_args.item_size >= 1
              /\ l * create_args.item_size > GU_ULONG_MAX) => fifo = NoFifo
        /\ fifo # NoFifo =>
              fifo.queue_bytes = fifo.length * fifo.item_size

====
